---- MODULE Spec2Model ----
(***************************************************************************)
(* Verification model of spada-sim: the round-granular traffic model       *)
(* (src/src/oracle_storage_traffic_model.rs) and the block/window          *)
(* scheduler (src/src/scheduler.rs).                                       *)
(*                                                                         *)
(* Rust arrays [usize; 2] are functions over {0, 1}, so that the indices   *)
(* read as in the source.  Option<T> is a sequence of length 0 or 1.       *)
(* A panic (unwrap on None, failed assert, index out of bounds, usize      *)
(* underflow) is recorded in the field "panic" of the object that raised   *)
(* it; every later step of that object is skipped.                         *)
(***************************************************************************)
EXTENDS Integers, Sequences, FiniteSets, TLC

VARIABLES tm, pc, pe_i, result, sched, a_matrix, pe_task, issued, call, ret

vars == <<tm, pc, pe_i, result, sched, a_matrix, pe_task, issued, call, ret>>
(* The traffic model and the scheduler are separate objects: tvars is the   *)
(* state of a TrafficModel run, svars that of a Scheduler and its PEs.      *)
tvars == <<tm, pc, pe_i, result>>
svars == <<sched, a_matrix, pe_task, issued>>
(* A single call of a function of the trackers or of parse_group, and what *)
(* it returned.                                                            *)
cvars == <<call, ret>>

-----------------------------------------------------------------------------
(* Bounds of the explored inputs.                                          *)

MaxARows == 3
BRowNum == 3
BColNum == 2
(* execute() has no round limit; a run on A takes at most two rounds per   *)
(* nonzero (one to multiply, one to merge) and two to wind down.           *)
MaxRound == 2 * MaxARows * BRowNum + 2

-----------------------------------------------------------------------------
(* Generic helpers.                                                        *)

Min(a, b) == IF a < b THEN a ELSE b
Max(a, b) == IF a > b THEN a ELSE b
Abs(a) == IF a < 0 THEN -a ELSE a
Pair(a, b) == (0 :> a) @@ (1 :> b)
None == <<>>
Some(x) == <<x>>
IsSome(o) == o /= <<>>
Unwrap(o) == o[1]
NoPanic == "none"

(* The sum of q[a .. b], by halves so that long sequences stay shallow. *)
RECURSIVE SumRange(_, _, _)
SumRange(q, a, b) ==
    IF a > b THEN 0
    ELSE IF a = b THEN q[a]
    ELSE SumRange(q, a, (a + b) \div 2) + SumRange(q, (a + b) \div 2 + 1, b)

SumSeq(q) == SumRange(q, 1, Len(q))

RECURSIVE Flatten(_)
Flatten(qq) == IF qq = <<>> THEN <<>> ELSE Head(qq) \o Flatten(Tail(qq))

SeqRange(q) == {q[i] : i \in 1..Len(q)}

RemoveVal(q, v) == SelectSeq(q, LAMBDA x : x /= v)

RECURSIVE SortedSeqOf(_)
SortedSeqOf(S) ==
    IF S = {} THEN <<>>
    ELSE LET m == CHOOSE x \in S : \A y \in S : x <= y
         IN  <<m>> \o SortedSeqOf(S \ {m})

(* Vec::binary_search on an ascending vector: Ok(pos) when present,        *)
(* Err(insertion point) otherwise; positions are 0-based.                  *)
binary_search(q, x) ==
    IF \E i \in 1..Len(q) : q[i] = x
    THEN [ok |-> TRUE, pos |-> (CHOOSE i \in 1..Len(q) : q[i] = x) - 1]
    ELSE [ok |-> FALSE, pos |-> Cardinality({i \in 1..Len(q) : q[i] < x})]

-----------------------------------------------------------------------------
(* Exact comparison of the f64 reuse ratios: naturals too large for TLC's  *)
(* integers are kept as little-endian decimal digit sequences.             *)

RECURSIVE BigOf(_)
BigOf(n) == IF n = 0 THEN <<>> ELSE <<n % 10>> \o BigOf(n \div 10)

RECURSIVE BigMulCarry(_, _, _)
BigMulCarry(d, k, carry) ==
    IF d = <<>> THEN BigOf(carry)
    ELSE LET v == Head(d) * k + carry
         IN  <<v % 10>> \o BigMulCarry(Tail(d), k, v \div 10)

BigMul(d, k) == IF k = 0 THEN <<>> ELSE BigMulCarry(d, k, 0)

RECURSIVE BigLessFrom(_, _, _)
BigLessFrom(x, y, i) ==
    IF i = 0 THEN FALSE
    ELSE IF x[i] /= y[i] THEN x[i] < y[i]
    ELSE BigLessFrom(x, y, i - 1)

BigLess(x, y) ==
    IF Len(x) /= Len(y) THEN Len(x) < Len(y) ELSE BigLessFrom(x, y, Len(x))

-----------------------------------------------------------------------------
(* CsrRow: a fiber (rowptr = fiber id, indptr = column ids, data = values). *)

CsrRow(rowptr, indptr, data) == [rowptr |-> rowptr, indptr |-> indptr, data |-> data]
CsrRowNew(rowptr) == CsrRow(rowptr, <<>>, <<>>)
FiberSize(f) == Len(f.data)

-----------------------------------------------------------------------------
(* Storage (crate::storage): CsrMatStorage, VectorStorage and LRUCache.    *)
(* Sizes and capacity are counted in elements.                             *)

EmptyMap == [k \in {} |-> 0]
MapPut(m, k, v) == [x \in DOMAIN m \cup {k} |-> IF x = k THEN v ELSE m[x]]
MapDel(m, k) == [x \in DOMAIN m \ {k} |-> m[x]]

(* CsrMatStorage::get_rowptr(r + 1) - get_rowptr(r) *)
RowLen(mem, r) == Len(mem.rows[r].indptr)

(* CsrMatStorage::read(row, col_s, ele_num): ele_num scalars of the row    *)
(* from position col_s on.                                                 *)
CsrMatRead(mem, row, col_s, ele_num) ==
    [mem |-> [mem EXCEPT !.read_count = @ + ele_num],
     val |-> CsrRow(row,
                    SubSeq(mem.rows[row].indptr, col_s + 1, col_s + ele_num),
                    SubSeq(mem.rows[row].data, col_s + 1, col_s + ele_num))]

(* Snapshotable for CsrMatStorage: the counters. *)
CsrMatTakeSnapshot(mem) ==
    [mem EXCEPT !.snapshot = Some(Pair(mem.read_count, mem.write_count))]
CsrMatRestore(mem) ==
    IF IsSome(mem.snapshot)
    THEN [mem EXCEPT !.read_count = Unwrap(mem.snapshot)[0],
                     !.write_count = Unwrap(mem.snapshot)[1]]
    ELSE mem
CsrMatDropSnapshot(mem) == [mem EXCEPT !.snapshot = None]

(* VectorStorage (psum storage): write a fiber under its id. *)
VecWrite(vs, f) ==
    [vs EXCEPT !.data = MapPut(@, f.rowptr, f), !.write_count = @ + FiberSize(f)]

CacheRemove(fc, id) ==
    [fc EXCEPT !.rowmap = MapDel(@, id),
               !.lru_queue = RemoveVal(@, id),
               !.cur_num = @ - FiberSize(fc.rowmap[id])]

CacheInsert(fc, f) ==
    [fc EXCEPT !.rowmap = MapPut(@, f.rowptr, f),
               !.lru_queue = Append(@, f.rowptr),
               !.cur_num = @ + FiberSize(f)]

(* Evict least-recently-used fibers until num more elements fit: a B fiber *)
(* is dropped, a psum fiber is flushed to the psum storage.                *)
RECURSIVE freeup_space(_, _)
freeup_space(fc, num) ==
    IF fc.cur_num + num <= fc.capability \/ fc.lru_queue = <<>> THEN fc
    ELSE LET id == Head(fc.lru_queue)
             f == fc.rowmap[id]
             dropped == CacheRemove(fc, id)
         IN  IF id < fc.output_base_addr
             THEN freeup_space([dropped EXCEPT !.b_evict_count = @ + 1], num)
             ELSE freeup_space([dropped EXCEPT !.psum_evict_count = @ + 1,
                                               !.psum_mem = VecWrite(@, f)], num)

(* LRUCache::read(id) -> Option<CsrRow> *)
CacheRead(fc, id) ==
    IF id \in DOMAIN fc.rowmap THEN
        [fc |-> [fc EXCEPT !.lru_queue = Append(RemoveVal(@, id), id),
                           !.read_count = @ + FiberSize(fc.rowmap[id])],
         val |-> Some(fc.rowmap[id])]
    ELSE IF id < fc.output_base_addr THEN
        IF id \in DOMAIN fc.b_mem.rows THEN
            LET f == fc.b_mem.rows[id]
                fetched == [fc EXCEPT !.b_mem.read_count = @ + FiberSize(f),
                                      !.miss_count = @ + 1,
                                      !.read_count = @ + FiberSize(f)]
            IN  [fc |-> IF FiberSize(f) <= fc.capability
                        THEN CacheInsert(freeup_space(fetched, FiberSize(f)), f)
                        ELSE fetched,
                 val |-> Some(f)]
        ELSE [fc |-> fc, val |-> None]
    ELSE
        IF id \in DOMAIN fc.psum_mem.data THEN
            LET f == fc.psum_mem.data[id]
                fetched == [fc EXCEPT !.psum_mem.read_count = @ + FiberSize(f),
                                      !.miss_count = @ + 1,
                                      !.read_count = @ + FiberSize(f)]
            IN  [fc |-> IF FiberSize(f) <= fc.capability
                        THEN CacheInsert(
                                 freeup_space([fetched EXCEPT !.psum_mem.data = MapDel(@, id)],
                                              FiberSize(f)), f)
                        ELSE fetched,
                 val |-> Some(f)]
        ELSE [fc |-> fc, val |-> None]

(* LRUCache::write(fiber): insert or replace, evicting until it fits; a    *)
(* fiber larger than the whole cache goes straight to the psum storage.    *)
CacheWrite(fc, f) ==
    LET counted == [fc EXCEPT !.write_count = @ + FiberSize(f)]
        cleared == IF f.rowptr \in DOMAIN counted.rowmap
                   THEN CacheRemove(counted, f.rowptr) ELSE counted
    IN  IF FiberSize(f) <= fc.capability
        THEN CacheInsert(
                 freeup_space([cleared EXCEPT !.psum_mem.data = MapDel(@, f.rowptr)],
                              FiberSize(f)), f)
        ELSE [cleared EXCEPT !.psum_mem = VecWrite(@, f)]

(* LRUCache::swapout(id): flush a cached psum to the psum storage. *)
CacheSwapout(fc, id) ==
    IF id \in DOMAIN fc.rowmap
    THEN [CacheRemove(fc, id) EXCEPT !.psum_mem = VecWrite(@, fc.rowmap[id])]
    ELSE fc

(* LRUCache::consume(id): read and remove, falling through to the storage. *)
CacheConsume(fc, id) ==
    IF id \in DOMAIN fc.rowmap THEN
        [fc |-> [CacheRemove(fc, id) EXCEPT !.read_count = @ + FiberSize(fc.rowmap[id])],
         val |-> Some(fc.rowmap[id])]
    ELSE IF id \in DOMAIN fc.psum_mem.data THEN
        [fc |-> [fc EXCEPT !.psum_mem.data = MapDel(@, id),
                           !.psum_mem.read_count = @ + FiberSize(fc.psum_mem.data[id]),
                           !.miss_count = @ + 1],
         val |-> Some(fc.psum_mem.data[id])]
    ELSE [fc |-> fc, val |-> None]

(* Snapshotable for LRUCache: contents, LRU order and counters of the      *)
(* cache and of its backing storages.                                      *)
CacheTakeSnapshot(fc) == [fc EXCEPT !.snapshot = Some([fc EXCEPT !.snapshot = None])]
CacheRestore(fc) ==
    IF IsSome(fc.snapshot)
    THEN [Unwrap(fc.snapshot) EXCEPT !.snapshot = fc.snapshot]
    ELSE fc
CacheDropSnapshot(fc) == [fc EXCEPT !.snapshot = None]

(* LRUCache::new *)
CacheNew(capability, output_base_addr, b_rows) ==
    [rowmap |-> EmptyMap, lru_queue |-> <<>>, cur_num |-> 0,
     capability |-> capability, output_base_addr |-> output_base_addr,
     read_count |-> 0, write_count |-> 0, miss_count |-> 0,
     b_evict_count |-> 0, psum_evict_count |-> 0,
     b_mem |-> [rows |-> b_rows, read_count |-> 0, write_count |-> 0],
     psum_mem |-> [data |-> EmptyMap, read_count |-> 0, write_count |-> 0],
     snapshot |-> None]

-----------------------------------------------------------------------------
(* Traffic model (oracle_storage_traffic_model.rs).  A reduction window    *)
(* and a block shape are [width, height]; a block index is [col_s, row_s]. *)
(* Columns of a block or window are positions within the rows of A.        *)

Block(width, height, row_s, col_s) ==
    [width |-> width, height |-> height, row_s |-> row_s, col_s |-> col_s]
get_idx(block) == Pair(block.col_s, block.row_s)
get_shape(block) == Pair(block.width, block.height)

PENew(default_reduction_window) ==
    [reduction_window |-> default_reduction_window,
     cur_block |-> Block(0, 0, 0, 0),
     merge_mode |-> FALSE, row_s |-> 0, col_s |-> 0]

assign_block(pe, block) ==
    [pe EXCEPT !.row_s = block.row_s, !.col_s = block.col_s, !.cur_block = block]

reset_pe(pe) ==
    [pe EXCEPT !.row_s = 0, !.col_s = 0, !.cur_block = Block(0, 0, 0, 0),
               !.reduction_window = Pair(0, 0)]

ExecTrackerNew(block_shape, window_shape) ==
    [block |-> block_shape, window |-> window_shape,
     touched_fiber_size |-> 0, dedup_fiber_size |-> 0, output_fiber_size |-> 0]

MergeTrackerNew == [finished |-> FALSE, blocks |-> <<>>]

Raise(s, what) == IF s.panic = NoPanic THEN [s EXCEPT !.panic = what] ELSE s

(* BlockTracker::find_left *)
find_left_at(cols, cur_block, col_pos) ==
    IF col_pos < 0 THEN [panic |-> NoPanic, val |-> None]
    ELSE [panic |-> NoPanic, val |-> Some(Pair(cols[col_pos + 1], cur_block[1]))]

find_left_in(topo, cur_block, r) ==
    IF ~r.ok THEN [panic |-> "find_left: unwrap on Err", val |-> None]
    ELSE find_left_at(topo.col_s_list[r.pos + 1], cur_block,
                      binary_search(topo.col_s_list[r.pos + 1], cur_block[0]).pos - 1)

tm_find_left(topo, cur_block) ==
    find_left_in(topo, cur_block, binary_search(topo.row_s_list, cur_block[1]))

(* BlockTracker::find_above *)
find_above_at(cols, row, cur_block, c) ==
    IF c.ok THEN [panic |-> NoPanic, val |-> Some(Pair(cols[c.pos + 1], row))]
    ELSE IF c.pos = 0 THEN [panic |-> "find_above: c - 1 underflows", val |-> None]
    ELSE LET c_l == Max(c.pos - 1, 0)
             c_r == Min(c.pos + 1, Len(cols) - 1)
         IN  IF Abs(cur_block[0] - cols[c_l + 1]) >= Abs(cols[c_r + 1] - cur_block[0])
             THEN [panic |-> NoPanic, val |-> Some(Pair(cols[c_r + 1], row))]
             ELSE [panic |-> NoPanic, val |-> Some(Pair(cols[c_l + 1], row))]

find_above_in(topo, cur_block, row_pos) ==
    IF row_pos < 0 THEN [panic |-> NoPanic, val |-> None]
    ELSE IF Len(topo.col_s_list[row_pos + 1]) = 0 THEN [panic |-> NoPanic, val |-> None]
    ELSE find_above_at(topo.col_s_list[row_pos + 1], topo.row_s_list[row_pos + 1], cur_block,
                       binary_search(topo.col_s_list[row_pos + 1], cur_block[0]))

tm_find_above(topo, cur_block) ==
    find_above_in(topo, cur_block, binary_search(topo.row_s_list, cur_block[1]).pos - 1)

is_col_s_valid(s, rowid, col_s) ==
    IF rowid >= s.a_mem.row_num THEN FALSE
    ELSE ~(RowLen(s.a_mem, rowid) <= col_s)

is_window_valid(s, row_s, row_num, col_s, b_col_s, b_width) ==
    \E rowid \in row_s..(row_s + row_num - 1) :
        ~(~is_col_s_valid(s, rowid, col_s) \/ col_s < b_col_s \/ col_s >= b_col_s + b_width)

is_block_valid(s, row_s, row_num, col_s) ==
    \E rowid \in row_s..(row_s + row_num - 1) : is_col_s_valid(s, rowid, col_s)

(* TrafficModel::adjust_block: empty in the source. *)
tm_adjust_block(s) == s

(* A registration that marks the row finished whatever the block covers. *)
register_row_always_finished(s, block, rowid) ==
    [finished |-> TRUE,
     blocks |-> Append(IF rowid \in DOMAIN s.merge_trackers
                       THEN s.merge_trackers[rowid].blocks ELSE MergeTrackerNew.blocks,
                       get_idx(block))]

(* The merge-tracker loop of get_next_block (lines 543-557). *)
register_row(s, block, rowid) ==
    [finished |-> ~is_col_s_valid(s, rowid, block.col_s + block.width),
     blocks |-> Append(IF rowid \in DOMAIN s.merge_trackers
                       THEN s.merge_trackers[rowid].blocks ELSE MergeTrackerNew.blocks,
                       get_idx(block))]

register_block(s, block) ==
    [rowid \in DOMAIN s.merge_trackers
               \cup {r \in block.row_s..(block.row_s + block.height - 1) :
                        is_col_s_valid(s, r, block.col_s)} |->
        IF rowid \in block.row_s..(block.row_s + block.height - 1)
           /\ is_col_s_valid(s, rowid, block.col_s)
        THEN register_row(s, block, rowid)
        ELSE s.merge_trackers[rowid]]

(* A topology update that opens a stripe for every block. *)
push_topo_stripe_per_block(topo, block) ==
    [row_s_list |-> Append(topo.row_s_list, block.row_s),
     col_s_list |-> Append(topo.col_s_list, <<block.col_s>>)]

(* The topology update of get_next_block (lines 532-540). *)
push_topo(topo, block) ==
    IF block.col_s = 0
    THEN [row_s_list |-> Append(topo.row_s_list, block.row_s),
          col_s_list |-> Append(topo.col_s_list, <<block.col_s>>)]
    ELSE [topo EXCEPT !.col_s_list[Len(topo.col_s_list)] = Append(@, block.col_s)]

allocate_block(s, block) ==
    IF block.col_s /= 0 /\ Len(s.block_topo.col_s_list) = 0
    THEN [s |-> Raise(s, "get_next_block: last_mut().unwrap() on None"), block |-> None]
    ELSE [s |-> [s EXCEPT !.block_topo = push_topo(@, block),
                          !.col_s = @ + s.block_shape[0],
                          !.merge_trackers = register_block(s, block)],
          block |-> Some(block)]

(* TrafficModel::get_next_block *)
RECURSIVE get_next_block(_)
get_next_block(s) ==
    IF s.row_s >= s.a_mem.row_num THEN [s |-> s, block |-> None]
    ELSE IF is_block_valid(s, s.row_s, s.block_shape[1], s.col_s)
    THEN allocate_block(s, Block(s.block_shape[0], s.block_shape[1], s.row_s, s.col_s))
    ELSE get_next_block([tm_adjust_block(s) EXCEPT !.row_s = @ + s.block_shape[1],
                                                   !.col_s = 0])

(* The row loop of slide_window (lines 642-655) on one PE. *)
RECURSIVE skip_invalid_rows(_, _)
skip_invalid_rows(s, pe) ==
    IF is_window_valid(s, pe.row_s, pe.reduction_window[1], pe.col_s,
                       pe.cur_block.col_s, pe.cur_block.width)
    THEN [pe |-> pe, ok |-> TRUE]
    ELSE IF pe.row_s + pe.reduction_window[1] >= pe.cur_block.row_s + pe.cur_block.height
    THEN [pe |-> [pe EXCEPT !.row_s = @ + pe.reduction_window[1]], ok |-> FALSE]
    ELSE skip_invalid_rows(s, [pe EXCEPT !.row_s = @ + pe.reduction_window[1]])

(* slide_window, the move to the next window rows (lines 636-660). *)
next_window_rows(s, pe) ==
    IF pe.row_s >= pe.cur_block.row_s + pe.cur_block.height
    THEN [pe |-> pe, ok |-> FALSE]
    ELSE skip_invalid_rows(s, pe)

(* TrafficModel::slide_window, on the PE record. *)
slide_window_pe(s, pe) ==
    IF pe.cur_block.height = 0 THEN [pe |-> pe, ok |-> FALSE]
    ELSE IF pe.row_s >= pe.cur_block.row_s + pe.cur_block.height
    THEN [pe |-> pe, ok |-> FALSE]
    ELSE IF is_window_valid(s, pe.row_s, pe.reduction_window[1],
                            pe.col_s + pe.reduction_window[0],
                            pe.cur_block.col_s, pe.cur_block.width)
    THEN [pe |-> [pe EXCEPT !.col_s = @ + pe.reduction_window[0]], ok |-> TRUE]
    ELSE next_window_rows(s, [pe EXCEPT !.col_s = pe.cur_block.col_s,
                                        !.row_s = @ + pe.reduction_window[1]])

slide_window_put(s, pe_no, r) == [s |-> [s EXCEPT !.pes[pe_no] = r.pe], ok |-> r.ok]

slide_window(s, pe_no) == slide_window_put(s, pe_no, slide_window_pe(s, s.pes[pe_no]))

(* ExecTracker::c_reuse() + b_reuse() of x is >= that of y; the f64        *)
(* quotients touched / (size * window + 0.00001) are compared exactly.     *)
ReuseDenC(x) == x.output_fiber_size * x.window[0] * 100000 + 1
ReuseDenB(x) == x.dedup_fiber_size * x.window[1] * 100000 + 1
total_reuse_ge(x, y) ==
    ~BigLess(BigMul(BigMul(BigMul(BigOf(ReuseDenC(x) + ReuseDenB(x)),
                                  x.touched_fiber_size), ReuseDenC(y)), ReuseDenB(y)),
             BigMul(BigMul(BigMul(BigOf(ReuseDenC(y) + ReuseDenB(y)),
                                  y.touched_fiber_size), ReuseDenC(x)), ReuseDenB(x)))

(* c_reuse() >= b_reuse() of one tracker. *)
c_reuse_ge_b_reuse(x) ==
    x.touched_fiber_size = 0
    \/ x.output_fiber_size * x.window[0] <= x.dedup_fiber_size * x.window[1]

(* TrafficModel::get_neighbor_blocks *)
neighbor_blocks_of(left, above) ==
    [panic |-> IF left.panic /= NoPanic THEN left.panic ELSE above.panic,
     val |-> left.val \o above.val]

get_neighbor_blocks(s, cur_idx) ==
    neighbor_blocks_of(tm_find_left(s.block_topo, cur_idx),
                       tm_find_above(s.block_topo, cur_idx))

(* adjust_window, lines 684-688: the neighbor of largest total reuse, the  *)
(* last one among equals (position_max_by).                                *)
max_reuse_block(s, blocks) ==
    IF Len(blocks) = 1 THEN blocks[1]
    ELSE IF total_reuse_ge(s.exec_trackers[blocks[2]], s.exec_trackers[blocks[1]])
    THEN blocks[2] ELSE blocks[1]

(* adjust_window, lines 690-706. *)
reshape_window(tr, block_shape) ==
    IF c_reuse_ge_b_reuse(tr)
    THEN IF tr.window[1] > 1 /\ tr.window[0] * 2 <= block_shape[0]
         THEN Pair(tr.window[0] * 2, tr.window[1] \div 2) ELSE tr.window
    ELSE IF tr.window[0] > 1 /\ tr.window[1] * 2 <= block_shape[1]
         THEN Pair(tr.window[0] \div 2, tr.window[1] * 2) ELSE tr.window

adjust_window_by(s, nb, block_shape) ==
    IF nb.panic /= NoPanic THEN [panic |-> nb.panic, val |-> Pair(0, 0)]
    ELSE IF Len(nb.val) = 0 THEN [panic |-> NoPanic, val |-> Pair(s.lane_num, 1)]
    ELSE IF \E i \in 1..Len(nb.val) : nb.val[i] \notin DOMAIN s.exec_trackers
    THEN [panic |-> "adjust_window: no exec tracker", val |-> Pair(0, 0)]
    ELSE [panic |-> NoPanic,
          val |-> reshape_window(s.exec_trackers[max_reuse_block(s, nb.val)], block_shape)]

(* TrafficModel::adjust_window *)
adjust_window(s, cur_idx, block_shape) ==
    adjust_window_by(s, get_neighbor_blocks(s, cur_idx), block_shape)

(* LRUCache::consume(..).unwrap() over the drained psum ids (line 741);    *)
(* st is [fc, fbs, panic].                                                 *)
consume_one(st, c) ==
    IF ~IsSome(c.val)
    THEN [fc |-> c.fc, fbs |-> st.fbs, panic |-> "fetch_window_data: consume unwrap on None"]
    ELSE [fc |-> c.fc, fbs |-> Append(st.fbs, Unwrap(c.val)), panic |-> NoPanic]

RECURSIVE consume_all(_, _)
consume_all(st, ids) ==
    IF ids = <<>> \/ st.panic /= NoPanic THEN st
    ELSE consume_all(consume_one(st, CacheConsume(st.fc, Head(ids))), Tail(ids))

(* One turn of the merge loop of fetch_window_data (lines 735-753) on the  *)
(* window data w = [s, rowidxs, scaling_factors, fibers]: used_num psums   *)
(* of the first queued row, consumed as c.                                 *)
RaiseIf(s, panic) == IF panic /= NoPanic THEN Raise(s, panic) ELSE s

fetch_merge_row(w, rowidx, used_num, c) ==
    LET psums == w.s.output_trackers[rowidx]
        rest == SubSeq(psums, used_num + 1, Len(psums))
    IN  [s |-> RaiseIf([w.s EXCEPT !.fiber_cache = c.fc,
                                   !.output_trackers[rowidx] = rest,
                                   !.merge_queue = IF Len(rest) = 0 THEN Tail(@) ELSE @],
                       c.panic),
         rowidxs |-> Append(w.rowidxs, rowidx),
         scaling_factors |-> Append(w.scaling_factors,
                                    [i \in 1..used_num |-> <<psums[i], 1>>]),
         fibers |-> Append(w.fibers, c.fbs)]

merge_used_num(s, unused_lane_num) ==
    Min(Len(s.output_trackers[Head(s.merge_queue)]), unused_lane_num)

(* fetch_window_data, merge mode (lines 733-754). *)
RECURSIVE fetch_merge(_, _)
fetch_merge(w, unused_lane_num) ==
    IF w.s.panic /= NoPanic \/ ~(unused_lane_num > 0 /\ Len(w.s.merge_queue) > 0) THEN w
    ELSE IF Head(w.s.merge_queue) \notin DOMAIN w.s.output_trackers
    THEN [w EXCEPT !.s = Raise(@, "fetch_window_data: output_trackers unwrap on None")]
    ELSE fetch_merge(
             fetch_merge_row(w, Head(w.s.merge_queue), merge_used_num(w.s, unused_lane_num),
                             consume_all([fc |-> w.s.fiber_cache, fbs |-> <<>>,
                                          panic |-> NoPanic],
                                         SubSeq(w.s.output_trackers[Head(w.s.merge_queue)], 1,
                                                merge_used_num(w.s, unused_lane_num)))),
             unused_lane_num - merge_used_num(w.s, unused_lane_num))

(* The scalar loop of fetch_window_data (lines 775-790): one B fiber per   *)
(* A scalar, through the per-window broadcast cache; st is                 *)
(* [fc, broadcast_cache, fbs, sfs].                                        *)
fetch_fiber_read(st, colid, value, r) ==
    IF IsSome(r.val)
    THEN [fc |-> r.fc,
          broadcast_cache |-> MapPut(st.broadcast_cache, colid, Unwrap(r.val)),
          fbs |-> Append(st.fbs, Unwrap(r.val)),
          sfs |-> Append(st.sfs, <<colid, value>>)]
    ELSE [st EXCEPT !.fc = r.fc]

fetch_fiber(st, colid, value) ==
    IF colid \in DOMAIN st.broadcast_cache
    THEN [st EXCEPT !.fbs = Append(@, st.broadcast_cache[colid]),
                    !.sfs = Append(@, <<colid, value>>)]
    ELSE fetch_fiber_read(st, colid, value, CacheRead(st.fc, colid))

RECURSIVE fetch_row_fibers(_, _, _)
fetch_row_fibers(st, r_sfs, i) ==
    IF i > Len(r_sfs.indptr) THEN st
    ELSE fetch_row_fibers(fetch_fiber(st, r_sfs.indptr[i], r_sfs.data[i]), r_sfs, i + 1)

(* One row of the row loop of fetch_window_data and of try_exec_block      *)
(* (lines 768-792, 1035-1059); w carries the broadcast cache of the window. *)
fetch_row_put(w, f) ==
    [w EXCEPT !.s.fiber_cache = f.fc,
              !.broadcast_cache = f.broadcast_cache,
              !.scaling_factors = Append(@, f.sfs),
              !.fibers = Append(@, f.fbs)]

fetch_row_scalars(w, r_sfs) ==
    fetch_row_put(w, fetch_row_fibers([fc |-> w.s.fiber_cache,
                                       broadcast_cache |-> w.broadcast_cache,
                                       fbs |-> <<>>, sfs |-> <<>>], r_sfs, 1))

fetch_row_read(w, rd) == fetch_row_scalars([w EXCEPT !.s.a_mem = rd.mem], rd.val)

fetch_row(w, rowidx, col_s, width) ==
    IF RowLen(w.s.a_mem, rowidx) > col_s
    THEN fetch_row_read(w, CsrMatRead(w.s.a_mem, rowidx, col_s,
                                      Min(width, RowLen(w.s.a_mem, rowidx) - col_s)))
    ELSE fetch_row_scalars(w, CsrRowNew(rowidx))

RECURSIVE fetch_rows(_, _, _, _, _)
fetch_rows(w, rowidxs, i, col_s, width) ==
    IF i > Len(rowidxs) THEN w
    ELSE fetch_rows(fetch_row(w, rowidxs[i], col_s, width), rowidxs, i + 1, col_s, width)

window_rowidxs(s, row_s, height) ==
    [i \in 1..Max(0, Min(row_s + height, s.a_mem.row_num) - row_s) |-> row_s + i - 1]

(* The data of a window before its rows are fetched. *)
WindowData(s, rowidxs) ==
    [s |-> s, rowidxs |-> rowidxs, scaling_factors |-> <<>>, fibers |-> <<>>,
     broadcast_cache |-> EmptyMap]

(* Sum of the sizes of the fetched fibers, one per distinct fiber id. *)
first_fiber_of(fbs, id) ==
    fbs[CHOOSE i \in 1..Len(fbs) :
            fbs[i].rowptr = id /\ \A j \in 1..(i - 1) : fbs[j].rowptr /= id]

dedup_size_of(fbs, ids) == SumSeq([i \in 1..Len(ids) |-> FiberSize(first_fiber_of(fbs, ids[i]))])

dedup_size(fbs) == dedup_size_of(fbs, SortedSeqOf({fbs[i].rowptr : i \in 1..Len(fbs)}))

touched_size(fbs) == SumSeq([i \in 1..Len(fbs) |-> FiberSize(fbs[i])])

(* The reuse-tracker update of fetch_window_data (lines 796-809). *)
track_fetched(w, idx, flat) ==
    IF idx \notin DOMAIN w.s.exec_trackers
    THEN [w EXCEPT !.s = Raise(@, "fetch_window_data: exec_trackers unwrap on None")]
    ELSE [w EXCEPT !.s.exec_trackers[idx].touched_fiber_size = @ + touched_size(flat),
                   !.s.exec_trackers[idx].dedup_fiber_size = @ + dedup_size(flat)]

track_window(w, idx) == track_fetched(w, idx, Flatten(w.fibers))

(* TrafficModel::fetch_window_data *)
fetch_window_data(s, pe_no) ==
    IF s.pes[pe_no].merge_mode
    THEN fetch_merge(WindowData(s, <<>>), s.lane_num)
    ELSE track_window(
             fetch_rows(WindowData(s, window_rowidxs(s, s.pes[pe_no].row_s,
                                                     s.pes[pe_no].reduction_window[1])),
                        window_rowidxs(s, s.pes[pe_no].row_s,
                                       s.pes[pe_no].reduction_window[1]),
                        1, s.pes[pe_no].col_s, s.pes[pe_no].reduction_window[0]),
             get_idx(s.pes[pe_no].cur_block))

(* An accumulation that overwrites the value of a column already present. *)
accumulate_at_overwrites(psum, colid, v, r) ==
    IF r.ok THEN [psum EXCEPT !.data[r.pos + 1] = v]
    ELSE [psum EXCEPT
            !.data = SubSeq(@, 1, r.pos) \o <<v>> \o SubSeq(@, r.pos + 1, Len(@)),
            !.indptr = SubSeq(@, 1, r.pos) \o <<colid>> \o SubSeq(@, r.pos + 1, Len(@))]

(* The accumulation of one scaled element into a psum (lines 831-837). *)
accumulate_at(psum, colid, v, r) ==
    IF r.ok THEN [psum EXCEPT !.data[r.pos + 1] = @ + v]
    ELSE [psum EXCEPT
            !.data = SubSeq(@, 1, r.pos) \o <<v>> \o SubSeq(@, r.pos + 1, Len(@)),
            !.indptr = SubSeq(@, 1, r.pos) \o <<colid>> \o SubSeq(@, r.pos + 1, Len(@))]

accumulate(psum, colid, v) == accumulate_at(psum, colid, v, binary_search(psum.indptr, colid))

RECURSIVE scale_add(_, _, _, _)
scale_add(psum, sf, fb, i) ==
    IF i > Min(Len(fb.indptr), Len(fb.data)) THEN psum
    ELSE scale_add(accumulate(psum, fb.indptr[i], sf[2] * fb.data[i]), sf, fb, i + 1)

RECURSIVE compute_row(_, _, _, _)
compute_row(psum, sfs, fbs, i) ==
    IF i > Min(Len(sfs), Len(fbs)) THEN psum
    ELSE compute_row(scale_add(psum, sfs[i], fbs[i], 1), sfs, fbs, i + 1)

(* TrafficModel::compute_a_window *)
compute_a_window(rowidxs, scaling_factors, fibers) ==
    [k \in 1..Min(Len(rowidxs), Min(Len(scaling_factors), Len(fibers))) |->
        IF Len(scaling_factors[k]) = 0 THEN None
        ELSE Some(compute_row(CsrRowNew(rowidxs[k]), scaling_factors[k], fibers[k], 1))]

(* A write_psum that does not advance the address counter. *)
write_one_psum_same_addr(s, rowidx, output_fiber) ==
    [s EXCEPT !.output_trackers =
                  MapPut(@, rowidx,
                         Append(IF rowidx \in DOMAIN s.output_trackers
                                THEN s.output_trackers[rowidx] ELSE <<>>,
                                s.output_base_addr)),
              !.fiber_cache = CacheWrite(@, [output_fiber EXCEPT !.rowptr = s.output_base_addr])]

(* One psum of write_psum (lines 852-860). *)
write_one_psum(s, rowidx, output_fiber) ==
    [s EXCEPT !.output_trackers =
                  MapPut(@, rowidx,
                         Append(IF rowidx \in DOMAIN s.output_trackers
                                THEN s.output_trackers[rowidx] ELSE <<>>,
                                s.output_base_addr)),
              !.output_base_addr = @ + 1,
              !.fiber_cache = CacheWrite(@, [output_fiber EXCEPT !.rowptr = s.output_base_addr])]

(* TrafficModel::write_psum *)
RECURSIVE write_psum(_, _, _, _)
write_psum(s, rowidxs, output_fibers, i) ==
    IF i > Min(Len(rowidxs), Len(output_fibers)) THEN s
    ELSE IF ~IsSome(output_fibers[i]) THEN write_psum(s, rowidxs, output_fibers, i + 1)
    ELSE write_psum(write_one_psum(s, rowidxs[i], Unwrap(output_fibers[i])),
                    rowidxs, output_fibers, i + 1)

(* Speculative write-back of try_exec_block (lines 1086-1095): the psums   *)
(* are written to the cache under fresh addresses, no tracker is touched.  *)
RECURSIVE try_write_back(_, _, _)
try_write_back(s, psums, i) ==
    IF i > Len(psums) THEN s
    ELSE IF ~IsSome(psums[i]) THEN try_write_back(s, psums, i + 1)
    ELSE try_write_back(
             [s EXCEPT !.output_base_addr = @ + 1,
                       !.fiber_cache =
                           CacheWrite(@, [Unwrap(psums[i]) EXCEPT !.rowptr = s.output_base_addr])],
             psums, i + 1)

(* Fetch, compute and write back one window of try_exec_block (lines 1018-1095). *)
try_exec_fetched(w) ==
    try_write_back(w.s, compute_a_window(w.rowidxs, w.scaling_factors, w.fibers), 1)

try_exec_window(s, reduction_window, row_s, col_s) ==
    try_exec_fetched(fetch_rows(WindowData(s, window_rowidxs(s, row_s, reduction_window[1])),
                                window_rowidxs(s, row_s, reduction_window[1]),
                                1, col_s, reduction_window[0]))

(* The inner while of try_exec_block (lines 995-1005): its break leaves    *)
(* only that while.                                                        *)
RECURSIVE try_skip_rows(_, _, _, _)
try_skip_rows(s, block, reduction_window, row_s) ==
    IF is_window_valid(s, row_s, reduction_window[1], block.col_s, block.col_s, block.width)
    THEN row_s
    ELSE IF row_s + reduction_window[1] >= block.row_s + block.height
    THEN row_s + reduction_window[1]
    ELSE try_skip_rows(s, block, reduction_window, row_s + reduction_window[1])

(* The window positions try_exec_block executes, in order (lines 974-1016). *)
RECURSIVE try_positions(_, _, _, _, _)
try_positions_from(s, block, reduction_window, row_s) ==
    <<Pair(row_s, block.col_s)>> \o try_positions(s, block, reduction_window, row_s, block.col_s)

try_positions(s, block, reduction_window, row_s, col_s) ==
    IF row_s >= block.row_s + block.height THEN <<>>
    ELSE IF is_window_valid(s, row_s, reduction_window[1], col_s + reduction_window[0],
                            col_s, block.width)
    THEN <<Pair(row_s, col_s + reduction_window[0])>>
         \o try_positions(s, block, reduction_window, row_s, col_s + reduction_window[0])
    ELSE IF row_s + reduction_window[1] >= block.row_s + block.height THEN <<>>
    ELSE try_positions_from(s, block, reduction_window,
                            try_skip_rows(s, block, reduction_window,
                                          row_s + reduction_window[1]))

RECURSIVE try_exec_all(_, _, _, _)
try_exec_all(s, reduction_window, positions, i) ==
    IF i > Len(positions) THEN s
    ELSE try_exec_all(try_exec_window(s, reduction_window, positions[i][0], positions[i][1]),
                      reduction_window, positions, i + 1)

(* TrafficModel::try_exec_block *)
try_exec_block(s, block, reduction_window) ==
    try_exec_all(s, reduction_window, try_positions(s, block, reduction_window, 0, 0), 1)

mem_traffic(s) ==
    s.fiber_cache.b_mem.read_count + s.fiber_cache.psum_mem.read_count
        + s.fiber_cache.psum_mem.write_count

(* oracle_adjust_window, lines 933-935: back to the snapshot. *)
oracle_restore(s) ==
    [s EXCEPT !.a_mem = CsrMatRestore(@), !.fiber_cache = CacheRestore(@)]

(* A search that keeps the window tried last. *)
oracle_pick_last(opt, access_count, reduction_window) ==
    [count |-> access_count, window |-> reduction_window]

(* oracle_adjust_window, lines 957-960: opt is [count, window], count = -1 *)
(* standing for usize::MAX.                                                *)
oracle_pick(opt, access_count, reduction_window) ==
    IF opt.count = -1 \/ access_count < opt.count
    THEN [count |-> access_count, window |-> reduction_window]
    ELSE opt

oracle_measure(restored, tried, opt, reduction_window) ==
    [s |-> tried,
     opt |-> oracle_pick(opt, mem_traffic(tried) - mem_traffic(restored), reduction_window)]

oracle_try(restored, block, reduction_window, opt) ==
    oracle_measure(restored, try_exec_block(restored, block, reduction_window), opt,
                   reduction_window)

(* The while loop of oracle_adjust_window (lines 930-964); st is [s, opt]. *)
RECURSIVE oracle_loop(_, _, _)
oracle_loop(st, block, reduction_window) ==
    IF ~(reduction_window[0] >= 1) THEN [s |-> st.s, val |-> st.opt.window]
    ELSE oracle_loop(oracle_try(oracle_restore(st.s), block, reduction_window, st.opt),
                     block, Pair(reduction_window[0] \div 2, reduction_window[1] * 2))

(* TrafficModel::oracle_adjust_window *)
oracle_adjust_window(s, block) ==
    oracle_loop([s |-> s, opt |-> [count |-> -1, window |-> Pair(0, 0)]], block,
                Pair(s.lane_num, 1))

(* The Some(block) arm of assign_jobs (lines 467-498); cw is the chosen    *)
(* window [s, val].                                                        *)
adjusted_window(s, a) == [s |-> RaiseIf(s, a.panic), val |-> a.val]

choose_window(s, block) ==
    IF s.oracle_exec THEN oracle_adjust_window(s, block)
    ELSE adjusted_window(s, adjust_window(s, get_idx(block), get_shape(block)))

first_window(s, pe) ==
    IF ~is_window_valid(s, pe.row_s, pe.reduction_window[1], pe.col_s,
                        pe.cur_block.col_s, pe.cur_block.width)
    THEN slide_window_pe(s, pe).pe ELSE pe

place_block(s, pe_no, pe) ==
    [s EXCEPT !.pes[pe_no] = pe,
              !.exec_trackers = MapPut(@, get_idx(pe.cur_block),
                                       ExecTrackerNew(get_shape(pe.cur_block),
                                                      pe.reduction_window))]

assign_window(cw, pe_no, block) ==
    IF cw.s.panic /= NoPanic THEN cw.s
    ELSE place_block(cw.s, pe_no,
                     first_window(cw.s, [assign_block(cw.s.pes[pe_no], block)
                                            EXCEPT !.reduction_window = cw.val]))

assign_new_block(s, pe_no, block) == assign_window(choose_window(s, block), pe_no, block)

(* One PE of the PE loop of assign_jobs, not in merge mode (lines 455-503). *)
assign_block_or_reset(nb, pe_no) ==
    IF IsSome(nb.block) THEN assign_new_block(nb.s, pe_no, Unwrap(nb.block))
    ELSE [nb.s EXCEPT !.pes[pe_no] = reset_pe(@), !.a_traversed = TRUE]

assign_after_slide(slid, pe_no) ==
    IF slid.ok THEN slid.s ELSE assign_block_or_reset(get_next_block(slid.s), pe_no)

assign_pe(s, pe_no) ==
    assign_after_slide(slide_window([s EXCEPT !.pes[pe_no].merge_mode = FALSE], pe_no), pe_no)

(* A PE loop that moves a PE to its next window before putting it in merge *)
(* mode.                                                                   *)
RECURSIVE assign_pes_merge_slides(_, _, _)
assign_pes_merge_slides(s, offset, alloc_merge_pe) ==
    IF offset >= s.pe_num \/ s.panic /= NoPanic THEN s
    ELSE IF alloc_merge_pe > 0
    THEN assign_pes_merge_slides(
             [slide_window(s, (offset + s.merge_pe) % s.pe_num).s
                 EXCEPT !.pes[(offset + s.merge_pe) % s.pe_num].merge_mode = TRUE],
             offset + 1, alloc_merge_pe - 1)
    ELSE assign_pes_merge_slides(assign_pe(s, (offset + s.merge_pe) % s.pe_num), offset + 1, 0)

(* The PE loop of assign_jobs (lines 448-506). *)
RECURSIVE assign_pes(_, _, _)
assign_pes(s, offset, alloc_merge_pe) ==
    IF offset >= s.pe_num \/ s.panic /= NoPanic THEN s
    ELSE IF alloc_merge_pe > 0
    THEN assign_pes([s EXCEPT !.pes[(offset + s.merge_pe) % s.pe_num].merge_mode = TRUE],
                    offset + 1, alloc_merge_pe - 1)
    ELSE assign_pes(assign_pe(s, (offset + s.merge_pe) % s.pe_num), offset + 1, 0)

(* A merge-queue pass that swaps out the single psum of a queued row       *)
(* whatever its merge tracker says.                                        *)
scan_row_swaps_unfinished(st, rowid) ==
    IF Len(st.s.output_trackers[rowid]) /= 1
    THEN [st EXCEPT !.queue = Append(@, rowid),
                    !.psums_num = @ + Len(st.s.output_trackers[rowid])]
    ELSE [st EXCEPT !.s.fiber_cache = CacheSwapout(@, st.s.output_trackers[rowid][1])]

(* One row of the merge-queue pass of assign_jobs (lines 405-434); st is   *)
(* [s, queue, psums_num], queue the rows kept.                             *)
scan_row(st, rowid) ==
    IF rowid \notin DOMAIN st.s.output_trackers
    THEN [st EXCEPT !.s = Raise(@, "assign_jobs: output_trackers unwrap on None")]
    ELSE IF Len(st.s.output_trackers[rowid]) /= 1
    THEN [st EXCEPT !.queue = Append(@, rowid),
                    !.psums_num = @ + Len(st.s.output_trackers[rowid])]
    ELSE IF rowid \notin DOMAIN st.s.merge_trackers
    THEN [st EXCEPT !.s = Raise(@, "assign_jobs: merge_trackers index")]
    ELSE IF st.s.merge_trackers[rowid].finished /\ Len(st.s.merge_trackers[rowid].blocks) = 0
    THEN [st EXCEPT !.s.fiber_cache = CacheSwapout(@, st.s.output_trackers[rowid][1])]
    ELSE st

(* The merge-queue pass of assign_jobs (lines 401-435) over the sorted,    *)
(* deduplicated queue.                                                     *)
RECURSIVE scan_merge_queue(_, _, _)
scan_merge_queue(st, queue, i) ==
    IF i > Len(queue) \/ st.s.panic /= NoPanic THEN st
    ELSE scan_merge_queue(scan_row(st, queue[i]), queue, i + 1)

(* assign_jobs, lines 394-397 and 510-513. *)
take_snapshots(s) ==
    IF s.oracle_exec
    THEN [s EXCEPT !.a_mem = CsrMatTakeSnapshot(@), !.fiber_cache = CacheTakeSnapshot(@)]
    ELSE s

drop_snapshots(s) ==
    IF s.oracle_exec
    THEN [s EXCEPT !.a_mem = CsrMatDropSnapshot(@), !.fiber_cache = CacheDropSnapshot(@)]
    ELSE s

(* assign_jobs, line 445. *)
merge_pe_num_of(s, psums_num) == (psums_num + s.lane_num - 1) \div s.lane_num

(* assign_jobs, lines 508-515. *)
assign_jobs_end(s, merge_pe_num) ==
    IF s.panic /= NoPanic THEN [s |-> s, ret |-> FALSE]
    ELSE [s |-> drop_snapshots([s EXCEPT !.merge_pe = (@ + merge_pe_num) % s.pe_num]),
          ret |-> TRUE]

(* assign_jobs, lines 438-506. *)
assign_jobs_scanned(s, psums_num) ==
    IF s.panic /= NoPanic THEN [s |-> s, ret |-> FALSE]
    ELSE IF s.a_traversed
            /\ (\A p \in DOMAIN s.pes : s.pes[p].cur_block.height = 0)
            /\ psums_num = 0
    THEN [s |-> s, ret |-> FALSE]
    ELSE assign_jobs_end(assign_pes(s, 0, Min(merge_pe_num_of(s, psums_num), s.pe_num)),
                         merge_pe_num_of(s, psums_num))

assign_jobs_queue(st) == assign_jobs_scanned([st.s EXCEPT !.merge_queue = st.queue], st.psums_num)

(* TrafficModel::assign_jobs *)
assign_jobs(s) ==
    assign_jobs_queue(scan_merge_queue([s |-> take_snapshots(s), queue |-> <<>>,
                                        psums_num |-> 0],
                                       SortedSeqOf(SeqRange(s.merge_queue)), 1))

(* A tile-end loop that queues no finished row for merging. *)
finish_rows_queues_none(s, pe, rowidxs, output_fibers, i) == s

(* One row of the tile-end loop of execute (lines 321-360). *)
finish_row(s, pe, row, output_fiber) ==
    IF IsSome(output_fiber)
       /\ ~is_window_valid(s, row, 1, pe.col_s + pe.reduction_window[0],
                           pe.cur_block.col_s, pe.cur_block.width)
    THEN IF row \notin DOMAIN s.merge_trackers
         THEN Raise(s, "execute: merge_trackers unwrap on None")
         ELSE [s EXCEPT !.merge_trackers[row].blocks = RemoveVal(@, get_idx(pe.cur_block)),
                        !.merge_queue = Append(@, row)]
    ELSE s

(* The tile-end loop of execute (lines 321-360). *)
RECURSIVE finish_rows(_, _, _, _, _)
finish_rows(s, pe, rowidxs, output_fibers, i) ==
    IF i > Len(rowidxs) \/ s.panic /= NoPanic THEN s
    ELSE finish_rows(finish_row(s, pe, rowidxs[i], output_fibers[i]),
                     pe, rowidxs, output_fibers, i + 1)

(* execute, lines 298-306: the output size of the window's block. *)
output_size(output_fibers) ==
    SumSeq([k \in 1..Len(output_fibers) |->
               IF IsSome(output_fibers[k]) THEN FiberSize(Unwrap(output_fibers[k])) ELSE 0])

count_output(s, i, output_fibers) ==
    IF ~s.pes[i].merge_mode
    THEN [s EXCEPT !.exec_trackers[get_idx(s.pes[i].cur_block)].output_fiber_size =
                       @ + output_size(output_fibers)]
    ELSE s

(* execute, lines 308-361: the work-mode update. *)
update_mode(s, i, rowidxs, output_fibers) ==
    IF s.pes[i].merge_mode THEN [s EXCEPT !.merge_queue = @ \o rowidxs]
    ELSE IF s.pes[i].cur_block.height /= 0
    THEN finish_rows(s, s.pes[i], rowidxs, output_fibers, 1)
    ELSE s

(* execute, line 364. *)
write_back(s, rowidxs, output_fibers) ==
    IF s.panic /= NoPanic THEN s ELSE write_psum(s, rowidxs, output_fibers, 1)

execute_computed(w, i, output_fibers) ==
    IF w.s.panic /= NoPanic THEN w.s
    ELSE write_back(update_mode(count_output(w.s, i, output_fibers), i, w.rowidxs,
                                output_fibers),
                    w.rowidxs, output_fibers)

execute_fetched(w, i) ==
    execute_computed(w, i, compute_a_window(w.rowidxs, w.scaling_factors, w.fibers))

(* One iteration of the PE loop of execute (lines 264-365). *)
execute_pe(s, i) ==
    IF ~s.pes[i].merge_mode /\ s.pes[i].reduction_window[0] = 0 THEN s
    ELSE execute_fetched(fetch_window_data(s, i), i)

(* Stable sort of the result fibers by rowptr (Vec::sort_by, line 893). *)
RECURSIVE insert_by_rowptr(_, _)
insert_by_rowptr(sorted, f) ==
    IF sorted = <<>> THEN <<f>>
    ELSE IF sorted[Len(sorted)].rowptr <= f.rowptr THEN Append(sorted, f)
    ELSE Append(insert_by_rowptr(SubSeq(sorted, 1, Len(sorted) - 1), f), sorted[Len(sorted)])

RECURSIVE sort_by_rowptr(_, _, _)
sort_by_rowptr(c, i, sorted) ==
    IF i > Len(c) THEN sorted
    ELSE sort_by_rowptr(c, i + 1, insert_by_rowptr(sorted, c[i]))

(* TrafficModel::get_exec_result.  An abort carries the panic message and, *)
(* for the assert of line 878, the row and addresses it prints.            *)
RECURSIVE collect_result(_, _, _)
collect_result(s, rowid, c) ==
    IF rowid >= s.a_mem.row_num
    THEN [aborted |-> FALSE, message |-> NoPanic, diag |-> None,
          c |-> sort_by_rowptr(c, 1, <<>>)]
    ELSE IF RowLen(s.a_mem, rowid) > 0 THEN
        LET raw_rowid == IF s.a_mem.remapped THEN s.a_mem.row_remap[rowid] ELSE rowid
        IN  IF rowid \notin DOMAIN s.output_trackers
            THEN [aborted |-> TRUE, message |-> "unwrap on None", diag |-> None, c |-> <<>>]
            ELSE LET addrs == s.output_trackers[rowid]
                 IN  IF Len(addrs) /= 1
                     THEN [aborted |-> TRUE, message |-> "Partially merged psums!",
                           diag |-> Some([row |-> raw_rowid, addrs |-> addrs]), c |-> <<>>]
                     ELSE LET addr == addrs[1]
                          IN  IF addr \in DOMAIN s.fiber_cache.psum_mem.data
                              THEN collect_result(s, rowid + 1,
                                       Append(c, [s.fiber_cache.psum_mem.data[addr]
                                                      EXCEPT !.rowptr = raw_rowid]))
                              ELSE IF addr \in DOMAIN s.fiber_cache.rowmap
                              THEN collect_result(s, rowid + 1,
                                       Append(c, [s.fiber_cache.rowmap[addr]
                                                      EXCEPT !.rowptr = raw_rowid]))
                              ELSE [aborted |-> TRUE, message |-> "unwrap on None",
                                    diag |-> None, c |-> <<>>]
    ELSE collect_result(s, rowid + 1, Append(c, CsrRowNew(rowid)))

get_exec_result(s) == collect_result(s, 0, <<>>)

-----------------------------------------------------------------------------
(* Inputs: A (column-sorted CSR, optionally row-reordered), B and the      *)
(* configuration handed to TrafficModel::new.                              *)

ARowChoices == {SortedSeqOf(S) : S \in SUBSET (0..(BRowNum - 1))}

AMatrices ==
    UNION {[0..(n - 1) -> ARowChoices] : n \in 1..MaxARows}

AMemOf(cols, remapped, row_remap) ==
    [row_num |-> Cardinality(DOMAIN cols),
     rows |-> [r \in DOMAIN cols |->
                  CsrRow(r, cols[r], [i \in 1..Len(cols[r]) |-> r + cols[r][i] + 1])],
     remapped |-> remapped, row_remap |-> row_remap,
     read_count |-> 0, write_count |-> 0, snapshot |-> None]

RowPermutations(S) == {f \in [S -> S] : \A x, y \in S : f[x] = f[y] => x = y}

BPatterns == <<{0}, {0, 1}, {}, {1}>>
BMatrix(shift) ==
    [k \in 0..(BRowNum - 1) |->
        LET cols == SortedSeqOf(BPatterns[((k + shift) % 4) + 1] \cap (0..(BColNum - 1)))
        IN  CsrRow(k, cols, [i \in 1..Len(cols) |-> k + cols[i] + 1])]
BShifts == {0}
BMatrices == {BMatrix(shift) : shift \in BShifts}

(* Configurations handed to TrafficModel::new: lanes per PE, PEs, default  *)
(* block shape [width, height], cache capacity in elements, oracle mode.   *)
Config(lane_num, pe_num, block_shape, cache_size, oracle_exec) ==
    [lane_num |-> lane_num, pe_num |-> pe_num, block_shape |-> block_shape,
     cache_size |-> cache_size, oracle_exec |-> oracle_exec]

Configs ==
    {Config(2, 1, Pair(2, 1), 64, FALSE), Config(2, 1, Pair(2, 1), 2, FALSE),
     Config(2, 1, Pair(1, 2), 2, FALSE),  Config(2, 2, Pair(1, 2), 64, FALSE),
     Config(2, 2, Pair(2, 2), 2, FALSE),  Config(4, 1, Pair(4, 1), 64, FALSE),
     Config(4, 2, Pair(2, 2), 64, FALSE), Config(4, 2, Pair(2, 1), 2, FALSE),
     Config(2, 1, Pair(2, 2), 64, TRUE),  Config(2, 2, Pair(2, 1), 2, TRUE),
     Config(4, 1, Pair(4, 1), 2, TRUE),   Config(4, 1, Pair(2, 2), 64, TRUE)}

(* TrafficModel::new *)
TrafficModelNew(pe_num, lane_num, cache_size, output_base_addr, default_reduction_window, default_block_shape, a_mem, b_rows, oracle_exec) ==
    [a_traversed |-> FALSE,
     reduction_window |-> default_reduction_window,
     pe_num |-> pe_num,
     lane_num |-> lane_num,
     fiber_cache |-> CacheNew(cache_size, output_base_addr, b_rows),
     pes |-> [p \in 0..(pe_num - 1) |-> PENew(default_reduction_window)],
     a_mem |-> a_mem,
     merge_queue |-> <<>>,
     block_shape |-> default_block_shape,
     block_topo |-> [row_s_list |-> <<>>, col_s_list |-> <<>>],
     exec_trackers |-> EmptyMap,
     output_base_addr |-> output_base_addr,
     output_trackers |-> EmptyMap,
     row_s |-> 0,
     col_s |-> 0,
     merge_trackers |-> EmptyMap,
     exec_round |-> 0,
     merge_pe |-> 0,
     oracle_exec |-> oracle_exec,
     panic |-> NoPanic]

Init ==
    \E cols \in AMatrices, b_rows \in BMatrices, cfg \in Configs, remapped \in BOOLEAN :
        \E row_remap \in IF remapped THEN RowPermutations(DOMAIN cols) ELSE {EmptyMap} :
            /\ tm = TrafficModelNew(cfg.pe_num, cfg.lane_num, cfg.cache_size, BRowNum + 1,
                                    Pair(cfg.lane_num, 1), cfg.block_shape,
                                    AMemOf(cols, remapped, row_remap), b_rows,
                                    cfg.oracle_exec)
            /\ pc = "new"
            /\ pe_i = 0
            /\ result = None
            /\ sched = None /\ a_matrix = None /\ pe_task = None /\ issued = {}
            /\ call = None /\ ret = None

(* execute(), line 246: reset the round counter and enter the loop. *)
Execute ==
    /\ pc = "new"
    /\ tm' = [tm EXCEPT !.exec_round = 0]
    /\ pc' = "round"
    /\ UNCHANGED <<pe_i, result, svars, cvars>>

(* execute(), lines 249-253: next round, assign_jobs, break when false. *)
AssignJobs ==
    /\ pc = "round"
    /\ tm.exec_round < MaxRound
    /\ \E r \in {assign_jobs([tm EXCEPT !.exec_round = @ + 1])} :
           /\ tm' = r.s
           /\ pc' = IF r.s.panic /= NoPanic THEN "panic"
                    ELSE IF r.ret THEN "pes" ELSE "stopped"
    /\ pe_i' = 0
    /\ UNCHANGED <<result, svars, cvars>>

(* execute(), lines 264-365: PE pe_i executes its window. *)
ExecutePE ==
    /\ pc = "pes"
    /\ \E s \in {execute_pe(tm, pe_i)} :
           /\ tm' = s
           /\ pc' = IF s.panic /= NoPanic THEN "panic"
                    ELSE IF pe_i + 1 = tm.pe_num THEN "round" ELSE "pes"
    /\ pe_i' = pe_i + 1
    /\ UNCHANGED <<result, svars, cvars>>

(* get_exec_result(), public: after execute() returned, or on a model that *)
(* was never executed.                                                     *)
GetExecResult ==
    /\ pc \in {"new", "stopped"}
    /\ result' = Some(get_exec_result(tm) @@ [after |-> pc])
    /\ pc' = "result"
    /\ UNCHANGED <<tm, pe_i, svars, cvars>>

Next == Execute \/ AssignJobs \/ ExecutePE \/ GetExecResult

Spec == Init /\ [][Next]_vars

-----------------------------------------------------------------------------
(* Scheduler (src/src/scheduler.rs).  Anchors are [row, col], shapes are   *)
(* [rows, cols].  The accelerator is "Omega" for the fixed variants        *)
(* main.rs selects (Ip, Omega, Op take the same branches here) and         *)
(* "NewOmega" for the adaptive one.  b_sparsity and b_group are read by    *)
(* nothing and are left out.  The topology tracker is kept as the source   *)
(* has it: Scheduler::new creates it and find_above reads it.              *)

(* usize::MAX *)
UsizeMax == -1

Task(block_token, window_token, group_size, merge_mode, a_eles) ==
    [block_token |-> block_token, window_token |-> window_token,
     group_size |-> group_size, merge_mode |-> merge_mode, a_eles |-> a_eles]

(* storage::Element *)
Element(idx, value) == [idx |-> idx, value |-> value]

BlockTrackerNew(token, anchor, shape, is_merge_block, a_cols_num, is_tail) ==
    [token |-> token, anchor |-> anchor, shape |-> shape,
     is_merge_block |-> is_merge_block,
     a_cols_assigned |-> [i \in 1..Len(a_cols_num) |-> 0],
     a_cols_num |-> a_cols_num, window_tokens |-> <<>>,
     miss_size |-> 0, psum_rw_size |-> Pair(0, 0), is_tail |-> is_tail]

WindowTrackerNew(token, anchor, block_token, shape, lane2idx, arow_addr_pairs) ==
    [token |-> token, anchor |-> anchor, block_token |-> block_token, shape |-> shape,
     b_cols_assigned |-> [i \in 1..(shape[0] * shape[1]) |-> 0],
     lane2idx |-> lane2idx, arow_addr_pairs |-> arow_addr_pairs]

(* CsrMatStorage::get_ele_num(row_s, row_t) *)
get_ele_num(mem, row_s, row_t) == SumSeq([i \in 1..(row_t - row_s) |-> RowLen(mem, row_s + i - 1)])

(* A group added with its first row alone entered in rgmap. *)
add_group_first_row_only(gt, gi) ==
    [groups |-> Append(gt.groups, gi),
     rgmap |-> [rowidx \in DOMAIN gt.rgmap \cup {gi.row_range[0]} |->
                   IF rowidx = gi.row_range[0] THEN Len(gt.groups) ELSE gt.rgmap[rowidx]]]

(* GroupTracker::add_group *)
add_group(gt, gi) ==
    [groups |-> Append(gt.groups, gi),
     rgmap |-> [rowidx \in DOMAIN gt.rgmap \cup (gi.row_range[0]..(gi.row_range[1] - 1)) |->
                   IF rowidx \in gi.row_range[0]..(gi.row_range[1] - 1)
                   THEN Len(gt.groups) ELSE gt.rgmap[rowidx]]]

GroupInfo(mem, row_s, idx) ==
    [row_range |-> Pair(row_s, idx),
     avg_row_len |-> get_ele_num(mem, row_s, idx) \div (idx - row_s),
     cost_num |-> EmptyMap]

(* A grouping that sees growth only: a row shorter than the reference by   *)
(* more than the factor stays in the group.                                *)
parse_row_growth_only(mem, var_factor, st, idx) ==
    IF idx = mem.row_num
    THEN [st EXCEPT !.gt = add_group(@, GroupInfo(mem, st.row_s, idx))]
    ELSE IF RowLen(mem, idx) = 0 THEN st
    ELSE IF st.prev_row_len = UsizeMax THEN [st EXCEPT !.prev_row_len = RowLen(mem, idx)]
    ELSE IF st.prev_row_len * var_factor < RowLen(mem, idx)
    THEN [gt |-> add_group(st.gt, GroupInfo(mem, st.row_s, idx)),
          prev_row_len |-> RowLen(mem, idx), row_s |-> idx]
    ELSE [st EXCEPT !.prev_row_len = RowLen(mem, idx)]

(* One turn of the loop of parse_group (lines 155-187); st is              *)
(* [gt, prev_row_len, row_s].                                              *)
parse_row(mem, var_factor, st, idx) ==
    IF idx = mem.row_num
    THEN [st EXCEPT !.gt = add_group(@, GroupInfo(mem, st.row_s, idx))]
    ELSE IF RowLen(mem, idx) = 0 THEN st
    ELSE IF st.prev_row_len = UsizeMax THEN [st EXCEPT !.prev_row_len = RowLen(mem, idx)]
    ELSE IF st.prev_row_len * var_factor < RowLen(mem, idx)
            \/ st.prev_row_len > var_factor * RowLen(mem, idx)
    THEN [gt |-> add_group(st.gt, GroupInfo(mem, st.row_s, idx)),
          prev_row_len |-> RowLen(mem, idx), row_s |-> idx]
    ELSE [st EXCEPT !.prev_row_len = RowLen(mem, idx)]

(* The turns idx = lo .. hi of the loop in their order, the range split in *)
(* halves so that long matrices stay shallow; st.row_s is a row before lo, *)
(* and reading it first settles the earlier turns before the later ones.   *)
RECURSIVE parse_rows(_, _, _, _, _)
parse_rows(mem, var_factor, st, lo, hi) ==
    IF st.row_s > lo \/ lo > hi THEN st
    ELSE IF lo = hi THEN parse_row(mem, var_factor, st, lo)
    ELSE parse_rows(mem, var_factor,
                    parse_rows(mem, var_factor, st, lo, (lo + hi) \div 2),
                    (lo + hi) \div 2 + 1, hi)

(* parse_group *)
parse_group(mem, var_factor) ==
    parse_rows(mem, var_factor,
               [gt |-> [groups |-> <<>>, rgmap |-> EmptyMap],
                prev_row_len |-> UsizeMax, row_s |-> 0], 0, mem.row_num).gt

(* BlockTopoTracker::new *)
BlockTopoTrackerNew == [row_s_list |-> <<>>, col_s_list |-> <<>>, token_list |-> <<>>]

(* BlockTopoTracker::find_left, lines 80-88. *)
topo_find_left_at(tokens, col_pos) ==
    IF col_pos < 0 THEN [panic |-> NoPanic, val |-> None]
    ELSE [panic |-> NoPanic, val |-> Some(tokens[col_pos + 1])]

topo_find_left_in(topo, cur_block, row_pos) ==
    IF row_pos < 0 THEN [panic |-> NoPanic, val |-> None]
    ELSE topo_find_left_at(topo.token_list[row_pos + 1],
                           binary_search(topo.col_s_list[row_pos + 1], cur_block[0]).pos - 1)

(* BlockTopoTracker::find_left: Ok(r) and Err(r) of the search for the row *)
(* both give row_pos = r - 1 (lines 72-74).                                *)
topo_find_left(topo, cur_block) ==
    topo_find_left_in(topo, cur_block, binary_search(topo.row_s_list, cur_block[1]).pos - 1)

(* BlockTopoTracker::find_above, lines 102-114: the token at the column    *)
(* found, or at the nearer neighbour of the insertion point.               *)
topo_find_above_at(cols, tokens, cur_block, c) ==
    IF c.ok THEN [panic |-> NoPanic, val |-> Some(tokens[c.pos + 1])]
    ELSE IF c.pos = 0 THEN [panic |-> "find_above: c - 1 underflows", val |-> None]
    ELSE IF Abs(cur_block[0] - cols[Max(c.pos - 1, 0) + 1])
                >= Abs(cols[Min(c.pos + 1, Len(cols) - 1) + 1] - cur_block[0])
         THEN [panic |-> NoPanic, val |-> Some(tokens[Min(c.pos + 1, Len(cols) - 1) + 1])]
         ELSE [panic |-> NoPanic, val |-> Some(tokens[Max(c.pos - 1, 0) + 1])]

(* BlockTopoTracker::find_above, lines 96-100. *)
topo_find_above_in(topo, cur_block, row_pos) ==
    IF row_pos < 0 THEN [panic |-> NoPanic, val |-> None]
    ELSE IF Len(topo.col_s_list[row_pos + 1]) = 0 THEN [panic |-> NoPanic, val |-> None]
    ELSE topo_find_above_at(topo.col_s_list[row_pos + 1], topo.token_list[row_pos + 1],
                            cur_block,
                            binary_search(topo.col_s_list[row_pos + 1], cur_block[0]))

(* BlockTopoTracker::find_above *)
topo_find_above(topo, cur_block) ==
    topo_find_above_in(topo, cur_block, binary_search(topo.row_s_list, cur_block[1]).pos - 1)

(* Scheduler::new *)
SchedulerNew(pe_num, lane_num, block_shape, output_base_addr, a_mem, b_rows, var_factor, accelerator) ==
    [a_traversed |-> FALSE,
     accelerator |-> accelerator,
     sampling_bounds |-> <<>>,
     set_row_num |-> UsizeMax,
     pe_num |-> pe_num,
     lane_num |-> lane_num,
     row_s |-> UsizeMax,
     col_s |-> UsizeMax,
     block_shape |-> block_shape,
     a_row_num |-> a_mem.row_num,
     a_row_lens |-> [idx \in 0..(a_mem.row_num - 1) |-> RowLen(a_mem, idx)],
     b_row_lens |-> [idx \in DOMAIN b_rows |-> FiberSize(b_rows[idx])],
     a_group |-> parse_group(a_mem, var_factor),
     row_group |-> UsizeMax,
     block_tracker |-> EmptyMap,
     block_topo_tracker |-> BlockTopoTrackerNew,
     window_tracker |-> EmptyMap,
     output_tracker |-> EmptyMap,
     output_addr_token |-> output_base_addr,
     window_token |-> 0,
     block_token |-> 0,
     finished_a_rows |-> {},
     panic |-> NoPanic]

(* Scheduler::is_block_finished *)
is_block_finished(s, block_token) ==
    \A i \in 1..Min(Len(s.block_tracker[block_token].a_cols_assigned),
                    Len(s.block_tracker[block_token].a_cols_num)) :
        ~(s.block_tracker[block_token].a_cols_assigned[i]
              < s.block_tracker[block_token].a_cols_num[i])

(* Scheduler::is_block_empty *)
is_block_empty(s, block_anchor, block_shape) ==
    \A rowid \in block_anchor[0]..(block_anchor[0] + block_shape[0] - 1) :
        rowid >= s.a_row_num \/ block_anchor[1] >= s.a_row_lens[rowid]

(* Scheduler::is_window_empty *)
is_window_empty(s, block_anchor, block_shape, window_anchor, window_shape) ==
    \A rowid \in window_anchor[0]..(Min(window_anchor[0] + window_shape[0],
                                        block_anchor[1] + block_shape[1]) - 1) :
        rowid >= s.a_row_num \/ window_anchor[1] >= s.a_row_lens[rowid]

(* rowwise_block_adjust_scheme, lines 776-777. *)
group_diviser == 128
sample_num == 4

RECURSIVE Pow2(_)
Pow2(n) == IF n = 0 THEN 1 ELSE 2 * Pow2(n - 1)

(* rowwise_block_adjust_scheme, lines 787-793: the rows at which the       *)
(* sampled row number changes, for i = 1, 2, 4, ... up to lane_num.        *)
RECURSIVE sampling_bounds_from(_, _, _, _)
sampling_bounds_from(lane_num, cur_row, i, bounds) ==
    IF i > lane_num THEN bounds
    ELSE sampling_bounds_from(lane_num, cur_row + sample_num * i, i * 2,
                              Append(bounds, cur_row + sample_num * i))

(* The rows of the group the scan is in. *)
group_row_range(s) == s.a_group.groups[s.row_group + 1].row_range

is_wide_group(s) == group_row_range(s)[1] - group_row_range(s)[0] > group_diviser

(* rowwise_block_adjust_scheme, lines 781-797: the scan enters a group. *)
enter_group(s) ==
    [s EXCEPT !.block_shape[1] = 1,
              !.row_group = s.a_group.rgmap[s.row_s],
              !.sampling_bounds =
                  IF is_wide_group([s EXCEPT !.row_group = s.a_group.rgmap[s.row_s]])
                  THEN sampling_bounds_from(s.lane_num, s.row_s + 1, 1, <<>>)
                  ELSE @,
              !.set_row_num = UsizeMax]

(* cost_num[0] / (cost_num[1] + 0.0001) < min_cost, min_cost being         *)
(* f32::MAX (None) or the quotient of an earlier entry.                    *)
div_cost_less(cost_num, min_cost) ==
    IF ~IsSome(min_cost) THEN TRUE
    ELSE cost_num[0] * (Unwrap(min_cost)[1] * 10000 + 1)
             < Unwrap(min_cost)[0] * (cost_num[1] * 10000 + 1)

(* rowwise_block_adjust_scheme, lines 805-826: the row number with the     *)
(* least cost per element; a row number without an entry is given the      *)
(* entry [0, 0], is taken and ends the loop.                                *)
RECURSIVE choose_row_num(_, _, _)
choose_row_num(s, cur_row_num, min_cost) ==
    IF cur_row_num > s.lane_num THEN s
    ELSE IF cur_row_num \in DOMAIN s.a_group.groups[s.row_group + 1].cost_num
    THEN IF div_cost_less(s.a_group.groups[s.row_group + 1].cost_num[cur_row_num], min_cost)
         THEN choose_row_num([s EXCEPT !.set_row_num = cur_row_num], cur_row_num * 2,
                             Some(s.a_group.groups[s.row_group + 1].cost_num[cur_row_num]))
         ELSE choose_row_num(s, cur_row_num * 2, min_cost)
    ELSE [s EXCEPT !.a_group.groups[s.row_group + 1].cost_num = MapPut(@, cur_row_num, Pair(0, 0)),
                   !.set_row_num = cur_row_num]

(* A sampling that reads every position of the bounds as a bound that was  *)
(* met, and so runs one row number ahead.                                  *)
sampled_row_num_ahead(s, r) == Pow2(r.pos + 1)

(* rowwise_block_adjust_scheme, lines 836-842: the row number while        *)
(* sampling.                                                               *)
sampled_row_num(s, r) == IF r.ok THEN Pow2(r.pos + 1) ELSE Pow2(r.pos)

(* rowwise_block_adjust_scheme, lines 844-848 and 907-912: halve until the *)
(* rows end before the group does.                                         *)
RECURSIVE clamp_to_group(_, _, _)
clamp_to_group(row_s, row_num, row_end) ==
    IF row_num > 1 /\ row_s + row_num >= row_end
    THEN clamp_to_group(row_s, row_num \div 2, row_end)
    ELSE row_num

set_block_rows(s, min_row_num) ==
    [s EXCEPT !.block_shape[1] = clamp_to_group(s.row_s, min_row_num, group_row_range(s)[1])]

(* rowwise_block_adjust_scheme, lines 800-854: a group of more than        *)
(* group_diviser rows.                                                     *)
adjust_wide_group(s) ==
    IF Len(s.sampling_bounds) = 0
    THEN Raise(s, "rowwise_block_adjust_scheme: last().unwrap() on None")
    ELSE IF s.row_s >= s.sampling_bounds[Len(s.sampling_bounds)]
    THEN IF s.set_row_num = UsizeMax
         THEN set_block_rows(choose_row_num(s, 1, None),
                             choose_row_num(s, 1, None).set_row_num)
         ELSE set_block_rows(s, s.set_row_num)
    ELSE set_block_rows(s, sampled_row_num(s, binary_search(s.sampling_bounds, s.row_s)))

(* The A-elements of rows row_s .. row_t - 1 (lines 864 and 872). *)
rows_ele_size(s, row_s, row_t) == SumSeq([i \in 1..(row_t - row_s) |-> s.a_row_lens[row_s + i - 1]])

(* Lines 874-881: the cost of a neighbour block. *)
neighbor_cost(blk) == (blk.miss_size + blk.psum_rw_size[0]) * 100 + blk.psum_rw_size[1]

(* n1_cost / n1_ele_size <= n2_cost / n2_ele_size on f32: a quotient by 0  *)
(* is infinite, 0 / 0 compares false with everything.                      *)
cost_ratio_le(c1, e1, c2, e2) ==
    IF (c1 = 0 /\ e1 = 0) \/ (c2 = 0 /\ e2 = 0) THEN FALSE
    ELSE IF e2 = 0 THEN TRUE
    ELSE IF e1 = 0 THEN FALSE
    ELSE c1 * e2 <= c2 * e1

(* Lines 893-905: double or halve the row number. *)
doubled_or_halved(s, better_is_n1, n1_row_num, n2_row_num) ==
    IF better_is_n1 = (n1_row_num >= n2_row_num)
    THEN Min(s.block_shape[1] * 2, s.lane_num)
    ELSE Max(s.block_shape[1] \div 2, 1)

(* Lines 862-912, with the two neighbours found. *)
adjust_by_neighbors(s, block_anchor, n1_token, n2_token) ==
    IF block_anchor[1] < s.block_tracker[n1_token].anchor[1]
       \/ s.block_tracker[n1_token].anchor[1] < s.block_tracker[n2_token].anchor[1]
    THEN Raise(s, "rowwise_block_adjust_scheme: subtract with overflow")
    ELSE IF block_anchor[1] > s.a_row_num
    THEN Raise(s, "rowwise_block_adjust_scheme: a_row_lens index out of bounds")
    ELSE [s EXCEPT !.block_shape[1] =
              clamp_to_group(
                  s.row_s,
                  doubled_or_halved(
                      s,
                      cost_ratio_le(neighbor_cost(s.block_tracker[n1_token]),
                                    rows_ele_size(s, s.block_tracker[n1_token].anchor[1],
                                                  block_anchor[1]),
                                    neighbor_cost(s.block_tracker[n2_token]),
                                    rows_ele_size(s, s.block_tracker[n2_token].anchor[1],
                                                  s.block_tracker[n1_token].anchor[1])),
                      block_anchor[1] - s.block_tracker[n1_token].anchor[1],
                      s.block_tracker[n1_token].anchor[1]
                          - s.block_tracker[n2_token].anchor[1]),
                  group_row_range(s)[1])]

(* Lines 866-870: the neighbour above the first neighbour. *)
adjust_with_second(s, block_anchor, n1_token, n2) ==
    IF n2.panic /= NoPanic THEN Raise(s, n2.panic)
    ELSE IF ~IsSome(n2.val) THEN s
    ELSE IF Unwrap(n2.val) \notin DOMAIN s.block_tracker
    THEN Raise(s, "rowwise_block_adjust_scheme: block_tracker unwrap on None")
    ELSE adjust_by_neighbors(s, block_anchor, n1_token, Unwrap(n2.val))

(* rowwise_block_adjust_scheme, lines 855-912: a group of at most          *)
(* group_diviser rows.                                                     *)
adjust_narrow_group(s, block_anchor, n1) ==
    IF n1.panic /= NoPanic THEN Raise(s, n1.panic)
    ELSE IF ~IsSome(n1.val) THEN s
    ELSE IF Unwrap(n1.val) \notin DOMAIN s.block_tracker
    THEN Raise(s, "rowwise_block_adjust_scheme: block_tracker unwrap on None")
    ELSE adjust_with_second(s, block_anchor, Unwrap(n1.val),
                            topo_find_above(s.block_topo_tracker,
                                            s.block_tracker[Unwrap(n1.val)].anchor))

(* Scheduler::rowwise_block_adjust_scheme *)
rowwise_block_adjust_scheme(s, block_anchor) ==
    IF s.row_s \notin DOMAIN s.a_group.rgmap
    THEN Raise(s, "rowwise_block_adjust_scheme: rgmap index")
    ELSE IF s.a_group.rgmap[s.row_s] /= s.row_group THEN enter_group(s)
    ELSE IF is_wide_group(s) THEN adjust_wide_group(s)
    ELSE adjust_narrow_group(s, block_anchor, topo_find_above(s.block_topo_tracker, block_anchor))

(* Scheduler::adjust_block (lines 752-771). *)
adjust_block(s, block_anchor) ==
    IF s.accelerator = "NewOmega" THEN rowwise_block_adjust_scheme(s, block_anchor)
    ELSE IF s.row_s \notin DOMAIN s.a_group.rgmap
    THEN Raise(s, "adjust_block: rgmap index")
    ELSE IF s.a_group.rgmap[s.row_s] /= s.row_group
    THEN [s EXCEPT !.row_group = s.a_group.rgmap[s.row_s]]
    ELSE s

(* Scheduler::adjust_window (lines 925-935). *)
sched_adjust_window(s, block_token) ==
    IF s.accelerator = "NewOmega"
    THEN Pair(s.block_shape[0], s.lane_num \div s.block_shape[1])
    ELSE Pair(s.block_shape[0], s.lane_num \div s.block_shape[0])

(* next_block, lines 416-443 and 451-478: the block at [row_s, col_s]. *)
block_a_cols_num(s) ==
    [i \in 1..s.block_shape[0] |->
        Max(Min(s.a_row_lens[s.row_s + i - 1], s.col_s + s.block_shape[1]), s.col_s) - s.col_s]

block_is_tail(s) ==
    [i \in 1..s.block_shape[0] |-> s.col_s + s.block_shape[1] >= s.a_row_lens[s.row_s + i - 1]]

open_block(s) ==
    IF s.row_s + s.block_shape[0] > s.a_row_num
    THEN [s |-> Raise(s, "next_block: a_row_lens index out of bounds"), token |-> None]
    ELSE [s |-> [s EXCEPT !.block_token = @ + 1,
                          !.block_tracker =
                              MapPut(@, s.block_token,
                                     BlockTrackerNew(s.block_token, Pair(s.row_s, s.col_s),
                                                     s.block_shape, FALSE,
                                                     block_a_cols_num(s), block_is_tail(s))),
                          !.col_s = @ + s.block_shape[1]],
          token |-> Some(s.block_token)]

(* A traversal that gives up the remaining rows of A at the first          *)
(* exhausted block.                                                        *)
next_block_row_gives_up(s) == [s EXCEPT !.row_s = s.a_row_num, !.col_s = 0]

(* next_block, lines 480-484. *)
next_block_row(s) ==
    IF s.row_s + s.block_shape[0] < s.a_row_num
    THEN adjust_block([s EXCEPT !.row_s = @ + s.block_shape[0], !.col_s = 0],
                      Pair(s.row_s + s.block_shape[0], 0))
    ELSE [s EXCEPT !.row_s = @ + s.block_shape[0], !.col_s = 0]

(* next_block, lines 413-415: the adaptive variant adjusts the first block. *)
first_adjust(s) == IF s.accelerator = "NewOmega" THEN adjust_block(s, Pair(s.row_s, s.col_s)) ELSE s

open_first_block(s) == IF s.panic /= NoPanic THEN [s |-> s, token |-> None] ELSE open_block(s)

(* Scheduler::next_block *)
RECURSIVE next_block(_)
next_block(s) ==
    IF s.panic /= NoPanic THEN [s |-> s, token |-> None]
    ELSE IF s.row_s = UsizeMax /\ s.col_s = UsizeMax
    THEN open_first_block(first_adjust([s EXCEPT !.row_s = 0, !.col_s = 0]))
    ELSE IF s.row_s >= s.a_row_num THEN [s |-> s, token |-> None]
    ELSE IF ~is_block_empty(s, Pair(s.row_s, s.col_s), s.block_shape) THEN open_block(s)
    ELSE next_block(next_block_row(s))

(* merge_task, lines 495-500: the pairs counted over the output tracker,   *)
(* visited in the order the map iterates.                                  *)
RECURSIVE count_pairs(_, _, _, _)
count_pairs(s, order, i, pnum) ==
    IF i > Len(order) \/ pnum >= s.lane_num \div 2 THEN pnum
    ELSE count_pairs(s, order, i + 1, pnum + Len(s.output_tracker[order[i]]) \div 2)

(* A merge that is issued on lane_num / 2 pairs only, traversed or not. *)
merge_not_ready_before_full(s, pnum) == pnum < s.lane_num \div 2

(* merge_task, line 501: no merge block is ready. *)
merge_not_ready(s, pnum) ==
    (s.a_traversed /\ pnum = 0) \/ (~s.a_traversed /\ pnum < s.lane_num \div 2)

(* merge_task, lines 506-513: the pairs drained from one row; st is        *)
(* [output_tracker, psums].                                                *)
RECURSIVE drain_row(_, _, _)
drain_row(st, row, lane_num) ==
    IF ~(Len(st.output_tracker[row]) > 1) \/ Len(st.psums) = lane_num THEN st
    ELSE drain_row([output_tracker |-> [st.output_tracker EXCEPT ![row] = SubSeq(@, 3, Len(@))],
                    psums |-> st.psums \o <<Pair(row, st.output_tracker[row][1]),
                                            Pair(row, st.output_tracker[row][2])>>],
                   row, lane_num)

(* merge_task, lines 505-514. *)
RECURSIVE drain_rows(_, _, _, _)
drain_rows(st, order, i, lane_num) ==
    IF i > Len(order) THEN st
    ELSE drain_rows(drain_row(st, order[i], lane_num), order, i + 1, lane_num)

(* An output address handed out a second time. *)
merge_slot_addr_reused(s, r_ofst) == s.output_addr_token - 1

(* merge_task, lines 526 and 533: the address of slot r_ofst, one tik per  *)
(* slot in slot order.                                                     *)
merge_slot_addr(s, r_ofst) == s.output_addr_token + r_ofst

(* merge_task, lines 518-538. *)
merge_a_cols_num(s, psums) ==
    [i \in 1..(s.lane_num \div 2) |-> IF i - 1 < Len(psums) \div 2 THEN 2 ELSE 0]

merge_arow_addr_pairs(s, psums) ==
    [i \in 1..(s.lane_num \div 2) |->
        IF i - 1 < Len(psums) \div 2
        THEN Pair(psums[(i - 1) * 2 + 1][0], merge_slot_addr(s, i - 1))
        ELSE Pair(UsizeMax, merge_slot_addr(s, i - 1))]

merge_lane2idx(s, psums) ==
    [k \in 1..(2 * (s.lane_num \div 2)) |->
        IF (k - 1) \div 2 < Len(psums) \div 2 THEN Some(psums[k]) ELSE None]

merge_a_eles(s, psums) ==
    [k \in 1..(2 * (s.lane_num \div 2)) |->
        IF (k - 1) \div 2 < Len(psums) \div 2 THEN Some(Element(psums[k], 1)) ELSE None]

(* merge_task, lines 542-565: the tracker of the merge block. *)
merge_block_tracker(s, psums) ==
    [BlockTrackerNew(s.block_token, Pair(0, 0), Pair(s.lane_num \div 2, 2), TRUE,
                     merge_a_cols_num(s, psums), [i \in 1..(s.lane_num \div 2) |-> FALSE])
        EXCEPT !.a_cols_assigned = merge_a_cols_num(s, psums),
               !.window_tokens = <<s.window_token>>]

(* merge_task, lines 516-579, on the drained trackers. *)
merge_task_of(s, st) ==
    [s |-> [s EXCEPT
              !.output_tracker = st.output_tracker,
              !.block_token = @ + 1,
              !.window_token = @ + 1,
              !.output_addr_token = @ + s.lane_num \div 2,
              !.block_tracker = MapPut(@, s.block_token, merge_block_tracker(s, st.psums)),
              !.window_tracker =
                  MapPut(@, s.window_token,
                         WindowTrackerNew(s.window_token, Pair(0, 0), s.block_token,
                                          Pair(s.lane_num \div 2, 2),
                                          merge_lane2idx(s, st.psums),
                                          merge_arow_addr_pairs(s, st.psums)))],
     task |-> Some(Task(s.block_token, s.window_token, 2, TRUE, merge_a_eles(s, st.psums)))]

(* Scheduler::merge_task; order is the iteration order of the output       *)
(* tracker, a HashMap.                                                     *)
merge_task(s, order) ==
    IF merge_not_ready(s, count_pairs(s, order, 1, 0)) THEN [s |-> s, task |-> None]
    ELSE merge_task_of(s, drain_rows([output_tracker |-> s.output_tracker, psums |-> <<>>],
                                     order, 1, s.lane_num))

(* next_window, lines 620-631: the row the window moves to. *)
RECURSIVE next_window_row(_, _, _, _)
next_window_row(s, blk, window_shape, row) ==
    IF ~(row < blk.anchor[0] + blk.shape[0]) THEN row
    ELSE IF ~is_window_empty(s, blk.anchor, blk.shape,
                             Pair(row + window_shape[0], blk.anchor[1]), window_shape)
    THEN row + window_shape[0]
    ELSE next_window_row(s, blk, window_shape, row + window_shape[0])

(* next_window, lines 644-647: the scalars window row r_idx reads. *)
window_row_num(s, r_idx, window_anchor, window_shape) ==
    Min(Max(s.a_row_lens[r_idx], window_anchor[1]), window_anchor[1] + window_shape[1])
        - window_anchor[1]

(* CsrMatStorage::read_scalars(row, col_s, num): num elements of the row   *)
(* from position col_s on, each with its index [row, column id].           *)
read_scalars(mem, row, col_s, num) ==
    [i \in 1..num |-> Element(Pair(row, mem.rows[row].indptr[col_s + i]),
                              mem.rows[row].data[col_s + i])]

(* next_window, lines 656-664: the lanes of one window row. *)
row_lane2idx(element, window_shape) ==
    [k \in 1..Max(Len(element), window_shape[1]) |->
        IF k <= Len(element) THEN Some(element[k].idx) ELSE None]

row_a_eles(element, window_token, window_shape) ==
    [k \in 1..Max(Len(element), window_shape[1]) |->
        IF k <= Len(element)
        THEN Some(Element(Pair(window_token, element[k].idx[1]), element[k].value))
        ELSE None]

window_elements(s, mem, window_anchor, window_shape) ==
    [i \in 1..window_shape[0] |->
        read_scalars(mem, window_anchor[0] + i - 1, window_anchor[1],
                     window_row_num(s, window_anchor[0] + i - 1, window_anchor, window_shape))]

(* One output address taken once and shared by the rows of the window. *)
window_output_addrs_shared(s, window_anchor, window_shape) ==
    [i \in 1..window_shape[0] |-> Pair(window_anchor[0] + i - 1, s.output_addr_token)]

(* next_window, lines 640-642: one output address per window row. *)
window_output_addrs(s, window_anchor, window_shape) ==
    [i \in 1..window_shape[0] |-> Pair(window_anchor[0] + i - 1, s.output_addr_token + i - 1)]

(* next_window, lines 652-655. *)
count_assigned(a_cols_assigned, elements, offset) ==
    [i \in 1..Len(a_cols_assigned) |->
        a_cols_assigned[i]
            + (IF i - offset \in 1..Len(elements) THEN Len(elements[i - offset]) ELSE 0)]

(* next_window, lines 637-692, on the scalars read. *)
window_task(s, mem, block_token, window_token, window_anchor, window_shape, elements) ==
    [s |-> [s EXCEPT
              !.output_addr_token = @ + window_shape[0],
              !.block_tracker[block_token].a_cols_assigned =
                  count_assigned(@, elements,
                                 window_anchor[0] - s.block_tracker[block_token].anchor[0]),
              !.block_tracker[block_token].window_tokens = Append(@, window_token),
              !.window_tracker =
                  MapPut(@, window_token,
                         WindowTrackerNew(window_token, window_anchor, block_token, window_shape,
                                          Flatten([i \in 1..Len(elements) |->
                                                      row_lane2idx(elements[i], window_shape)]),
                                          window_output_addrs(s, window_anchor, window_shape)))],
     mem |-> [mem EXCEPT !.read_count = @ + SumSeq([i \in 1..Len(elements) |-> Len(elements[i])])],
     task |-> Some(Task(block_token, window_token, window_shape[1], FALSE,
                        Flatten([i \in 1..Len(elements) |->
                                    row_a_eles(elements[i], window_token, window_shape)])))]

open_window(s, mem, block_token, window_token, window_anchor, window_shape) ==
    IF window_anchor[0] + window_shape[0] > s.a_row_num
    THEN [s |-> Raise(s, "next_window: a_row_lens index out of bounds"),
          mem |-> mem, task |-> None]
    ELSE IF window_anchor[0] + window_shape[0]
               > s.block_tracker[block_token].anchor[0]
                     + Len(s.block_tracker[block_token].a_cols_assigned)
    THEN [s |-> Raise(s, "next_window: a_cols_assigned index out of bounds"),
          mem |-> mem, task |-> None]
    ELSE window_task(s, mem, block_token, window_token, window_anchor, window_shape,
                     window_elements(s, mem, window_anchor, window_shape))

(* next_window, lines 632-635. *)
open_window_at_row(s, mem, block_token, window, row) ==
    IF row >= s.block_tracker[block_token].anchor[0] + s.block_tracker[block_token].shape[0]
    THEN [s |-> s, mem |-> mem, task |-> None]
    ELSE open_window(s, mem, block_token, window.token,
                     Pair(row, s.block_tracker[block_token].anchor[1]), window.shape)

(* next_window, lines 601-635: the window after the previous one. *)
slide_from(s, mem, block_token, blk, window) ==
    IF window.anchor[0] >= blk.anchor[0] + blk.shape[0]
    THEN [s |-> s, mem |-> mem, task |-> None]
    ELSE IF window.anchor[1] + window.shape[1] < blk.anchor[1] + blk.shape[1]
    THEN open_window(s, mem, block_token, window.token,
                     Pair(window.anchor[0], window.anchor[1] + window.shape[1]), window.shape)
    ELSE open_window_at_row(s, mem, block_token, window,
                            next_window_row(s, blk, window.shape, window.anchor[0]))

(* Scheduler::next_window *)
next_window(s, block_token, mem) ==
    IF block_token \notin DOMAIN s.block_tracker
    THEN [s |-> Raise(s, "next_window: block_tracker index"), mem |-> mem, task |-> None]
    ELSE IF Len(s.block_tracker[block_token].window_tokens) = 0
    THEN open_window([s EXCEPT !.window_token = @ + 1], mem, block_token, s.window_token,
                     s.block_tracker[block_token].anchor, sched_adjust_window(s, block_token))
    ELSE IF s.block_tracker[block_token].window_tokens[
                Len(s.block_tracker[block_token].window_tokens)] \notin DOMAIN s.window_tracker
    THEN [s |-> Raise(s, "next_window: window_tracker unwrap on None"),
          mem |-> mem, task |-> None]
    ELSE slide_from(s, mem, block_token, s.block_tracker[block_token],
                    s.window_tracker[s.block_tracker[block_token].window_tokens[
                        Len(s.block_tracker[block_token].window_tokens)]])

(* One row of collect_pending_psums (lines 940-951). *)
collect_psum(s, arow_addr) ==
    IF arow_addr[0] = UsizeMax THEN s
    ELSE IF arow_addr[0] \in DOMAIN s.output_tracker
    THEN IF arow_addr[1] \in SeqRange(s.output_tracker[arow_addr[0]]) THEN s
         ELSE [s EXCEPT !.output_tracker[arow_addr[0]] = Append(@, arow_addr[1])]
    ELSE [s EXCEPT !.output_tracker = MapPut(@, arow_addr[0], <<arow_addr[1]>>)]

RECURSIVE collect_psums(_, _, _)
collect_psums(s, window, i) ==
    IF i > window.shape[0] \/ s.panic /= NoPanic THEN s
    ELSE IF i > Len(window.arow_addr_pairs)
    THEN Raise(s, "collect_pending_psums: arow_addr_pairs index out of bounds")
    ELSE collect_psums(collect_psum(s, window.arow_addr_pairs[i]), window, i + 1)

(* Scheduler::collect_pending_psums *)
collect_pending_psums(s, window_token) ==
    IF window_token \notin DOMAIN s.window_tracker
    THEN Raise(s, "collect_pending_psums: window_tracker unwrap on None")
    ELSE collect_psums(s, s.window_tracker[window_token], 1)

(* assign_jobs, lines 348-362. *)
no_task(m, mem) == [s |-> m.s, mem |-> mem, task |-> m.task]

assign_next_block(nb, mem, order) ==
    IF nb.s.panic /= NoPanic THEN [s |-> nb.s, mem |-> mem, task |-> None]
    ELSE IF IsSome(nb.token) THEN next_window(nb.s, Unwrap(nb.token), mem)
    ELSE no_task(merge_task([nb.s EXCEPT !.a_traversed = TRUE], order), mem)

(* assign_jobs, lines 344-362. *)
assign_after_merge(m, mem, order) ==
    IF IsSome(m.task) THEN [s |-> m.s, mem |-> mem, task |-> m.task]
    ELSE assign_next_block(next_block(m.s), mem, order)

(* A new block opened without first trying to form a merge task. *)
assign_new_job_block_first(s, mem, order) == assign_next_block(next_block(s), mem, order)

assign_new_job(s, mem, order) == assign_after_merge(merge_task(s, order), mem, order)

(* Scheduler::assign_jobs; task is pe.task. *)
sched_assign_jobs(s, task, mem, order) ==
    IF ~IsSome(task) THEN assign_new_job(s, mem, order)
    ELSE IF Unwrap(task).block_token \notin DOMAIN s.block_tracker
    THEN [s |-> Raise(s, "is_block_finished: block_tracker unwrap on None"),
          mem |-> mem, task |-> None]
    ELSE IF is_block_finished(s, Unwrap(task).block_token) THEN assign_new_job(s, mem, order)
    ELSE next_window(s, Unwrap(task).block_token, mem)

(* Every iteration order a HashMap over the keys S can take. *)
Orders(S) == {q \in [1..Cardinality(S) -> S] : \A i, j \in 1..Cardinality(S) : q[i] = q[j] => i = j}

(* The output addresses the window trackers of s hold. *)
window_addrs(s) ==
    UNION {{s.window_tracker[w].arow_addr_pairs[i][1] :
                i \in 1..Len(s.window_tracker[w].arow_addr_pairs)} :
           w \in DOMAIN s.window_tracker}

(* Configurations handed to Scheduler::new: lanes per PE, PEs, block shape *)
(* [rows, cols], group variance factor.                                    *)
SchedConfig(lane_num, pe_num, block_shape, var_factor) ==
    [lane_num |-> lane_num, pe_num |-> pe_num, block_shape |-> block_shape,
     var_factor |-> var_factor]

SchedConfigs ==
    {SchedConfig(2, 1, Pair(2, 2), 2), SchedConfig(2, 2, Pair(1, 2), 2),
     SchedConfig(2, 1, Pair(1, 1), 2), SchedConfig(4, 1, Pair(2, 3), 2),
     SchedConfig(4, 2, Pair(1, 2), 2), SchedConfig(4, 2, Pair(2, 2), 2),
     SchedConfig(3, 1, Pair(1, 1), 2)}

(* A scheduler on A and B, every PE without a task. *)
SchedInit ==
    \E cols \in AMatrices, cfg \in SchedConfigs :
        /\ sched = SchedulerNew(cfg.pe_num, cfg.lane_num, cfg.block_shape, BRowNum + 1,
                                AMemOf(cols, FALSE, EmptyMap), BMatrix(0), cfg.var_factor,
                                "Omega")
        /\ a_matrix = AMemOf(cols, FALSE, EmptyMap)
        /\ pe_task = [p \in 0..(cfg.pe_num - 1) |-> [task |-> None, done |-> FALSE]]
        /\ issued = {}
        /\ tm = None /\ pc = "scheduler" /\ pe_i = 0 /\ result = None
        /\ call = None /\ ret = None

(* A PE without a task, or done with its window, asks for its next job;    *)
(* issued records every output address handed out so far.                  *)
SchedAssignJobs(p) ==
    /\ pc = "scheduler"
    /\ sched.panic = NoPanic
    /\ ~IsSome(pe_task[p].task) \/ pe_task[p].done
    /\ \E order \in Orders(DOMAIN sched.output_tracker) :
         \E r \in {sched_assign_jobs(sched, pe_task[p].task, a_matrix, order)} :
             /\ sched' = r.s
             /\ a_matrix' = r.mem
             /\ pe_task' = [pe_task EXCEPT ![p] = [task |-> r.task, done |-> FALSE]]
             /\ issued' = issued \cup window_addrs(r.s)
    /\ UNCHANGED <<tvars, cvars>>

(* A PE completes the window of its task: its pending psums are collected. *)
CollectPendingPsums(p) ==
    /\ pc = "scheduler"
    /\ sched.panic = NoPanic
    /\ IsSome(pe_task[p].task) /\ ~pe_task[p].done
    /\ sched' = collect_pending_psums(sched, Unwrap(pe_task[p].task).window_token)
    /\ pe_task' = [pe_task EXCEPT ![p].done = TRUE]
    /\ UNCHANGED <<a_matrix, issued, tvars, cvars>>

SchedNext == \E p \in DOMAIN pe_task : SchedAssignJobs(p) \/ CollectPendingPsums(p)

SpecSched == SchedInit /\ [][SchedNext]_vars

-----------------------------------------------------------------------------
(* Reference product, computed row by row from A and B as constructed.     *)

BValue(f, j) ==
    IF \E i \in 1..Len(f.indptr) : f.indptr[i] = j
    THEN f.data[CHOOSE i \in 1..Len(f.indptr) : f.indptr[i] = j]
    ELSE 0

RefFiber(s, rowid, label) ==
    LET a == s.a_mem.rows[rowid]
        B == s.fiber_cache.b_mem.rows
        cols == SortedSeqOf(UNION {SeqRange(B[a.indptr[i]].indptr) : i \in 1..Len(a.indptr)})
    IN  CsrRow(label, cols,
               [n \in 1..Len(cols) |->
                   SumSeq([i \in 1..Len(a.indptr) |->
                              a.data[i] * BValue(B[a.indptr[i]], cols[n])])])

RawOf(s, rowid) == IF s.a_mem.remapped THEN s.a_mem.row_remap[rowid] ELSE rowid
StoredAs(s, raw) == CHOOSE rowid \in 0..(s.a_mem.row_num - 1) : RawOf(s, rowid) = raw
RefProduct(s) ==
    [k \in 1..s.a_mem.row_num |-> RefFiber(s, StoredAs(s, k - 1), k - 1)]

Productive(s) == {r \in 0..(s.a_mem.row_num - 1) : RowLen(s.a_mem, r) > 0}
OnePsum(s, r) == r \in DOMAIN s.output_trackers /\ Len(s.output_trackers[r]) = 1
Returned == pc = "result" /\ Unwrap(result).after = "stopped"

-----------------------------------------------------------------------------
(* C1: when execute() stops, every A-row with at least one nonzero has     *)
(* exactly one psum address left in output_trackers.                       *)
C1_OnePsumAtStop ==
    pc = "stopped" => \A r \in Productive(tm) : OnePsum(tm, r)

(* A run that stopped after merging: a row spanning several blocks, whose  *)
(* psums were merged into an address issued after the first ones.          *)
C1_Witness ==
    /\ pc = "stopped"
    /\ \E r \in Productive(tm) :
          /\ RowLen(tm.a_mem, r) > tm.block_shape[0]
          /\ OnePsum(tm, r)
          /\ tm.output_trackers[r][1] >= BRowNum + 1 + 2

(* C2: the matrix returned by get_exec_result after execute() equals the   *)
(* reference product A.B, row by row: same column ids, same values.        *)
C2_ResultIsProduct ==
    Returned => (~Unwrap(result).aborted /\ Unwrap(result).c = RefProduct(tm))

(* C3: every run of execute() reaches the termination condition and stops; *)
(* the round loop never runs forever.  Every step of the loop increases    *)
(* (exec_round, pe_i), so a run that does not stop is a run that reaches   *)
(* any given round: no run leaves the loop by a panic, short of the        *)
(* termination condition, and none is still in the loop at round MaxRound. *)
C3_Terminates ==
    /\ pc /= "panic"
    /\ pc = "round" => tm.exec_round < MaxRound
    /\ pc = "pes" => (pe_i < tm.pe_num /\ tm.exec_round <= MaxRound)

(* C5: get_exec_result returns exactly one fiber per row of A, labelled    *)
(* with the distinct original row indices in ascending order; an empty     *)
(* A-row yields an empty fiber, also under a row remap.                    *)
C5_OneFiberPerOriginalRow ==
    (Returned /\ ~Unwrap(result).aborted) =>
        LET c == Unwrap(result).c
        IN  /\ Len(c) = tm.a_mem.row_num
            /\ \A k \in 1..Len(c) :
                  /\ c[k].rowptr = k - 1
                  /\ RowLen(tm.a_mem, StoredAs(tm, k - 1)) = 0 => FiberSize(c[k]) = 0

(* C6: if some row with nonzero A-content does not have exactly one        *)
(* outstanding psum (zero, several, or no tracker entry), get_exec_result  *)
(* aborts with a diagnostic naming the row and its outstanding addresses   *)
(* and returns no partial result.                                          *)
C6_AbortNamesRow ==
    (pc = "result" /\ \E r \in Productive(tm) : ~OnePsum(tm, r)) =>
        /\ Unwrap(result).aborted
        /\ Unwrap(result).c = <<>>
        /\ IsSome(Unwrap(result).diag)
        /\ LET d == Unwrap(Unwrap(result).diag)
               r == CHOOSE x \in Productive(tm) :
                        /\ ~OnePsum(tm, x)
                        /\ \A y \in Productive(tm) : ~OnePsum(tm, y) => x <= y
           IN  /\ d.row = RawOf(tm, r)
               /\ r \in DOMAIN tm.output_trackers
               /\ d.addrs = tm.output_trackers[r]

-----------------------------------------------------------------------------
(* Properties of the scheduler.                                            *)

(* Row-local psum pairs in the output tracker: the sum over rows of        *)
(* floor(|list| / 2).                                                      *)
PairsIn(s, rows) == SumSeq([i \in 1..Len(rows) |-> Len(s.output_tracker[rows[i]]) \div 2])
PsumPairs(s) == PairsIn(s, SortedSeqOf(DOMAIN s.output_tracker))

(* A merge task can be formed. *)
MergeReady(s) == PsumPairs(s) >= s.lane_num \div 2 \/ (s.a_traversed /\ PsumPairs(s) >= 1)

(* PE p is at a call of assign_jobs that tries a merge task first: it has  *)
(* no task, or the block of its completed task is finished.                *)
Asking(p) ==
    /\ sched.panic = NoPanic
    /\ \/ ~IsSome(pe_task[p].task)
       \/ pe_task[p].done /\ is_block_finished(sched, Unwrap(pe_task[p].task).block_token)

(* PE p holds a merge task with filled of its slots filled. *)
HoldsMerge(p, filled) ==
    /\ IsSome(pe_task[p].task)
    /\ Unwrap(pe_task[p].task).merge_mode
    /\ Cardinality({k \in 1..Len(Unwrap(pe_task[p].task).a_eles) :
                       IsSome(Unwrap(pe_task[p].task).a_eles[k])}) = 2 * filled

(* C4: for a fixed scheduler state, merge_task packs the same rows and     *)
(* psum-id pairs into the same slots, and leaves the same state, whatever  *)
(* order the output-tracker map is iterated in.                            *)
C4_MergeOrderIndependent ==
    \A p \in DOMAIN pe_task :
        Asking(p) =>
            \A o1, o2 \in Orders(DOMAIN sched.output_tracker) :
                merge_task(sched, o1) = merge_task(sched, o2)

(* C7: a row of A without nonzeros never gets an output address in a       *)
(* window tracker nor an entry in the output tracker.                      *)
C7_NoPsumForEmptyRow ==
    \A r \in 0..(sched.a_row_num - 1) :
        sched.a_row_lens[r] = 0 =>
            /\ r \notin DOMAIN sched.output_tracker
            /\ \A w \in DOMAIN sched.window_tracker :
                   \A i \in 1..Len(sched.window_tracker[w].arow_addr_pairs) :
                       sched.window_tracker[w].arow_addr_pairs[i][0] /= r

(* C8: merge_task returns a merge task exactly when lane_num / 2 row-local *)
(* psum pairs exist, or A is traversed and one pair exists; otherwise it   *)
(* returns None.                                                           *)
ReturnsMergeIffReady(s, m) ==
    /\ IsSome(m.task) <=> MergeReady(s)
    /\ IsSome(m.task) => Unwrap(m.task).merge_mode

C8_MergeIffReady ==
    \A order \in Orders(DOMAIN sched.output_tracker) :
        ReturnsMergeIffReady(sched, merge_task(sched, order))

C8_Witness ==
    /\ sched.lane_num = 4
    /\ sched.a_traversed
    /\ \E p \in DOMAIN pe_task : HoldsMerge(p, 1)

(* C9: a merge task fills at most lane_num / 2 slots; a filled slot holds  *)
(* two psum ids of one row, taken from that row's output-tracker list,     *)
(* which held at least two and holds neither afterwards; its output        *)
(* address was never handed out before and is no other slot's.             *)
SlotOk(s, m, w, i) ==
    w.arow_addr_pairs[i][0] /= UsizeMax =>
        /\ IsSome(w.lane2idx[2 * i - 1]) /\ IsSome(w.lane2idx[2 * i])
        /\ Unwrap(w.lane2idx[2 * i - 1])[0] = w.arow_addr_pairs[i][0]
        /\ Unwrap(w.lane2idx[2 * i])[0] = w.arow_addr_pairs[i][0]
        /\ Unwrap(w.lane2idx[2 * i - 1])[1] /= Unwrap(w.lane2idx[2 * i])[1]
        /\ w.arow_addr_pairs[i][0] \in DOMAIN s.output_tracker
        /\ Len(s.output_tracker[w.arow_addr_pairs[i][0]]) >= 2
        /\ {Unwrap(w.lane2idx[2 * i - 1])[1], Unwrap(w.lane2idx[2 * i])[1]}
               \subseteq SeqRange(s.output_tracker[w.arow_addr_pairs[i][0]])
        /\ {Unwrap(w.lane2idx[2 * i - 1])[1], Unwrap(w.lane2idx[2 * i])[1]}
               \cap SeqRange(m.s.output_tracker[w.arow_addr_pairs[i][0]]) = {}
        /\ w.arow_addr_pairs[i][1] \notin issued
        /\ \A r \in DOMAIN s.output_tracker :
               w.arow_addr_pairs[i][1] \notin SeqRange(s.output_tracker[r])
        /\ \A j \in 1..Len(w.arow_addr_pairs) :
               j /= i => w.arow_addr_pairs[j][1] /= w.arow_addr_pairs[i][1]

SlotsOk(s, m, w) ==
    /\ Len(w.arow_addr_pairs) <= s.lane_num \div 2
    /\ Len(w.lane2idx) = 2 * Len(w.arow_addr_pairs)
    /\ \A i \in 1..Len(w.arow_addr_pairs) : SlotOk(s, m, w, i)

MergeTaskOk(s, m) ==
    IsSome(m.task) => SlotsOk(s, m, m.s.window_tracker[Unwrap(m.task).window_token])

C9_MergeSlots ==
    \A order \in Orders(DOMAIN sched.output_tracker) :
        MergeTaskOk(sched, merge_task(sched, order))

C9_Witness ==
    /\ sched.lane_num = 4
    /\ \E p \in DOMAIN pe_task : HoldsMerge(p, 2)

(* C10: a PE without a task, or whose block is finished, gets the merge    *)
(* task whenever one can be formed, and no block or window of A is opened  *)
(* by that call; when exactly lane_num / 2 pairs are there, the one merge  *)
(* task takes them all.                                                    *)
MergeIssuedFirst(s, r) ==
    /\ IsSome(r.task) /\ Unwrap(r.task).merge_mode
    /\ r.s.row_s = s.row_s /\ r.s.col_s = s.col_s
    /\ r.s.block_token = s.block_token + 1
    /\ r.s.window_token = s.window_token + 1
    /\ r.s.block_tracker[s.block_token].is_merge_block
    /\ DOMAIN r.s.block_tracker = DOMAIN s.block_tracker \cup {s.block_token}
    /\ r.mem = a_matrix
    /\ PsumPairs(s) = s.lane_num \div 2 => PsumPairs(r.s) = 0

C10_MergeBeforeNewBlock ==
    \A p \in DOMAIN pe_task :
        (Asking(p) /\ MergeReady(sched)) =>
            \A order \in Orders(DOMAIN sched.output_tracker) :
                MergeIssuedFirst(sched, sched_assign_jobs(sched, pe_task[p].task, a_matrix, order))

C10_Witness ==
    /\ ~sched.a_traversed
    /\ sched.row_s >= 0 /\ sched.row_s < sched.a_row_num
    /\ ~is_block_empty(sched, Pair(sched.row_s, sched.col_s), sched.block_shape)
    /\ PsumPairs(sched) = 0
    /\ \E p \in DOMAIN pe_task : HoldsMerge(p, sched.lane_num \div 2)

(* A block position of the traversal (row stripe r, column step c) that    *)
(* holds an A-element and for which no block was issued.                   *)
BlockIssuedAt(s, r, c) ==
    \E b \in DOMAIN s.block_tracker :
        ~s.block_tracker[b].is_merge_block /\ s.block_tracker[b].anchor = Pair(r, c)

UnissuedBlock(s) ==
    \E r \in 0..(s.a_row_num - 1), c \in 0..BRowNum :
        /\ r % s.block_shape[0] = 0 /\ c % s.block_shape[1] = 0
        /\ ~is_block_empty(s, Pair(r, c), s.block_shape)
        /\ ~BlockIssuedAt(s, r, c)

(* PE p may call assign_jobs: it has no task or completed its window. *)
MayAsk(p) == sched.panic = NoPanic /\ (~IsSome(pe_task[p].task) \/ pe_task[p].done)

NoneOnlyWhenAllIssued(r) == (r.s.panic = NoPanic /\ ~IsSome(r.task)) => ~UnissuedBlock(r.s)

(* C11: when the block of a PE has no more windows, assign_jobs opens a    *)
(* new block; it returns None to a PE only when no block of A holding an   *)
(* element is left unissued.                                               *)
C11_NoneOnlyWhenAllIssued ==
    \A p \in DOMAIN pe_task :
        MayAsk(p) =>
            \A order \in Orders(DOMAIN sched.output_tracker) :
                NoneOnlyWhenAllIssued(sched_assign_jobs(sched, pe_task[p].task, a_matrix, order))

(* A PE was given the first window of the next block of a row stripe, its  *)
(* previous block being out of windows.                                    *)
C11_Witness ==
    \E p \in DOMAIN pe_task :
        /\ IsSome(pe_task[p].task)
        /\ ~Unwrap(pe_task[p].task).merge_mode
        /\ Unwrap(pe_task[p].task).block_token >= 1
        /\ sched.block_tracker[Unwrap(pe_task[p].task).block_token].anchor[1] > 0
        /\ Len(sched.block_tracker[Unwrap(pe_task[p].task).block_token].window_tokens) = 1

(* C12: a_traversed is set only by a call in which next_block finds no new *)
(* block and no merge task remains to be formed (no row holds two psums),  *)
(* and once set it is never cleared.                                       *)
TraversedAtEnd ==
    (~sched.a_traversed /\ sched'.a_traversed)
        => (~IsSome(next_block(sched).token) /\ PsumPairs(sched) = 0)

C12_TraversedOnlyAtEnd ==
    [][TraversedAtEnd /\ (sched.a_traversed => sched'.a_traversed)]_vars

-----------------------------------------------------------------------------
(* Swap-out in the traffic model.                                          *)

(* Row rowid is eligible for swap-out: its merge tracker is finished, no   *)
(* block of it is pending, and its output list holds one psum.             *)
Eligible(s, rowid) ==
    /\ rowid \in DOMAIN s.merge_trackers
    /\ s.merge_trackers[rowid].finished
    /\ Len(s.merge_trackers[rowid].blocks) = 0
    /\ rowid \in DOMAIN s.output_trackers
    /\ Len(s.output_trackers[rowid]) = 1

(* The pass over row rowid swapped a fiber out of the cache. *)
SwappedOut(st, nx) == nx.s.fiber_cache /= st.s.fiber_cache

SwapoutStepOk(st, rowid, nx) ==
    SwappedOut(st, nx) =>
        /\ Eligible(st.s, rowid)
        /\ DOMAIN st.s.fiber_cache.rowmap \ DOMAIN nx.s.fiber_cache.rowmap
               = {st.s.output_trackers[rowid][1]}
        /\ st.s.output_trackers[rowid][1] \in DOMAIN nx.s.fiber_cache.psum_mem.data

RECURSIVE SwapoutsOk(_, _, _)
SwapoutsOk(st, queue, i) ==
    IF i > Len(queue) \/ st.s.panic /= NoPanic THEN TRUE
    ELSE /\ SwapoutStepOk(st, queue[i], scan_row(st, queue[i]))
         /\ SwapoutsOk(scan_row(st, queue[i]), queue, i + 1)

ScanStart(s) == [s |-> take_snapshots(s), queue |-> <<>>, psums_num |-> 0]

(* C13: the merge-queue pass of assign_jobs swaps a psum out of the cache  *)
(* only for a row whose merge tracker is finished, whose pending-block     *)
(* list is empty and whose output list holds exactly that psum.            *)
C13_SwapoutOnlyEligible ==
    (pc = "round" /\ tm.panic = NoPanic) =>
        SwapoutsOk(ScanStart(tm), SortedSeqOf(SeqRange(tm.merge_queue)), 1)

(* The pass is about to swap out the cached psum of the first queued row,  *)
(* while another queued row keeps its psums.                               *)
C13_Witness ==
    /\ pc = "round" /\ tm.panic = NoPanic
    /\ Len(tm.merge_queue) >= 2
    /\ SwappedOut(ScanStart(tm),
                  scan_row(ScanStart(tm), SortedSeqOf(SeqRange(tm.merge_queue))[1]))

-----------------------------------------------------------------------------
(* Windows and blocks of the scheduler.                                    *)

(* Lane k of window row i of window w: the A-element at position           *)
(* anchor[1] + k of row anchor[0] + i, or None past the end of the row.    *)
LaneOk(s, mem, t, w, i, k) ==
    IF w.anchor[1] + k < s.a_row_lens[w.anchor[0] + i]
    THEN /\ t.a_eles[i * w.shape[1] + k + 1]
               = Some(Element(Pair(t.window_token,
                                   mem.rows[w.anchor[0] + i].indptr[w.anchor[1] + k + 1]),
                              mem.rows[w.anchor[0] + i].data[w.anchor[1] + k + 1]))
         /\ w.lane2idx[i * w.shape[1] + k + 1]
               = Some(Pair(w.anchor[0] + i,
                           mem.rows[w.anchor[0] + i].indptr[w.anchor[1] + k + 1]))
    ELSE /\ t.a_eles[i * w.shape[1] + k + 1] = None
         /\ w.lane2idx[i * w.shape[1] + k + 1] = None

(* The output address of window row i: the row's, and handed out for the   *)
(* first time.                                                             *)
RowAddrOk(s, w, i) ==
    /\ w.arow_addr_pairs[i + 1][0] = w.anchor[0] + i
    /\ w.arow_addr_pairs[i + 1][1] \notin issued
    /\ w.arow_addr_pairs[i + 1][1] >= s.output_addr_token
    /\ \A j \in 0..(w.shape[0] - 1) :
           j /= i => w.arow_addr_pairs[j + 1][1] /= w.arow_addr_pairs[i + 1][1]

WindowTaskOk(s, mem, t, w) ==
    /\ Len(t.a_eles) = w.shape[0] * w.shape[1]
    /\ Len(w.lane2idx) = w.shape[0] * w.shape[1]
    /\ t.group_size = w.shape[1]
    /\ Len(w.arow_addr_pairs) = w.shape[0]
    /\ \A i \in 0..(w.shape[0] - 1) :
           /\ RowAddrOk(s, w, i)
           /\ \A k \in 0..(w.shape[1] - 1) : LaneOk(s, mem, t, w, i, k)

NormalTaskOk(s, mem, r) ==
    (IsSome(r.task) /\ ~Unwrap(r.task).merge_mode)
        => /\ WindowTaskOk(s, mem, Unwrap(r.task),
                           r.s.window_tracker[Unwrap(r.task).window_token])
           /\ r.s.output_addr_token
                  = s.output_addr_token
                        + r.s.window_tracker[Unwrap(r.task).window_token].shape[0]

(* C14: a normal task has shape[0] * shape[1] lanes; window row i fills    *)
(* lanes i * shape[1] .. (i + 1) * shape[1] - 1 with the row's elements    *)
(* from the window's column anchor on, in order, padded with None;         *)
(* group_size is shape[1]; shape[0] fresh output addresses are allocated,  *)
(* one per window row.                                                     *)
C14_WindowTaskLayout ==
    \A p \in DOMAIN pe_task :
        MayAsk(p) =>
            \A order \in Orders(DOMAIN sched.output_tracker) :
                NormalTaskOk(sched, a_matrix,
                             sched_assign_jobs(sched, pe_task[p].task, a_matrix, order))

(* A PE holds a task of a two-row window away from column 0 with both an   *)
(* element and a padding lane.                                             *)
C14_Witness ==
    \E p \in DOMAIN pe_task :
        /\ IsSome(pe_task[p].task)
        /\ ~Unwrap(pe_task[p].task).merge_mode
        /\ sched.window_tracker[Unwrap(pe_task[p].task).window_token].shape = Pair(2, 2)
        /\ sched.window_tracker[Unwrap(pe_task[p].task).window_token].anchor[1] > 0
        /\ \E k \in 1..4 : IsSome(Unwrap(pe_task[p].task).a_eles[k])
        /\ \E k \in 1..4 : ~IsSome(Unwrap(pe_task[p].task).a_eles[k])

(* Window w is a sub-rectangle of block b. *)
InsideBlock(w, b) ==
    /\ b.anchor[0] <= w.anchor[0]
    /\ w.anchor[0] + w.shape[0] <= b.anchor[0] + b.shape[0]
    /\ b.anchor[1] <= w.anchor[1]
    /\ w.anchor[1] + w.shape[1] <= b.anchor[1] + b.shape[1]

(* C15: every window issued for a block of A lies inside that block, rows  *)
(* and columns, so that no task reads an A-element outside its block.      *)
C15_WindowInsideBlock ==
    \A t \in DOMAIN sched.window_tracker :
        ~sched.block_tracker[sched.window_tracker[t].block_token].is_merge_block
            => InsideBlock(sched.window_tracker[t],
                           sched.block_tracker[sched.window_tracker[t].block_token])

(* C16: for every issued block, normal or merge, is_block_finished holds    *)
(* exactly when the A-elements assigned to its windows add up to the       *)
(* A-elements the block holds.                                             *)
C16_FinishedIffAllAssigned ==
    \A t \in DOMAIN sched.block_tracker :
        is_block_finished(sched, t)
            <=> SumSeq(sched.block_tracker[t].a_cols_assigned)
                    = SumSeq(sched.block_tracker[t].a_cols_num)

-----------------------------------------------------------------------------
(* Psum addresses.  Both simulators take them from a counter that starts   *)
(* at the length of B's indptr: the traffic model in write_psum, the       *)
(* scheduler in next_window and merge_task.  AllInit and AllNext put the   *)
(* two simulators side by side.                                            *)

AllInit == Init \/ SchedInit

AllNext == Next \/ SchedNext

SpecAll == AllInit /\ [][AllNext]_vars

(* The psum addresses the traffic model holds in its output trackers. *)
TmPsumAddrs(t) == UNION {SeqRange(t.output_trackers[r]) : r \in DOMAIN t.output_trackers}

(* The addresses of one row are listed in the order they were issued. *)
Increasing(q) == \A i \in 1..Len(q) : \A j \in 1..Len(q) : i < j => q[i] < q[j]

(* A step of the traffic model from t to u: the addresses that appear are  *)
(* those the counter passed over, none is held by two rows, and all lie    *)
(* above the ids of B's rows.                                              *)
TmIssueOk(t, u) ==
    /\ t.output_base_addr <= u.output_base_addr
    /\ TmPsumAddrs(u) \ TmPsumAddrs(t) \subseteq t.output_base_addr..(u.output_base_addr - 1)
    /\ TmPsumAddrs(u) \subseteq (BRowNum + 1)..(u.output_base_addr - 1)
    /\ \A r \in DOMAIN u.output_trackers :
          /\ Increasing(u.output_trackers[r])
          /\ \A q \in DOMAIN u.output_trackers :
                q /= r => SeqRange(u.output_trackers[q]) \cap SeqRange(u.output_trackers[r]) = {}

(* A step of the scheduler from s to u, with the addresses handed out      *)
(* before and after it: the new ones are exactly those the token passed    *)
(* over, each handed out once.                                             *)
SchedIssueOk(s, u, before, after) ==
    /\ s.output_addr_token <= u.output_addr_token
    /\ after \ before = s.output_addr_token..(u.output_addr_token - 1)
    /\ after \subseteq (BRowNum + 1)..(u.output_addr_token - 1)

(* C17: psum addresses are issued in strictly increasing order from        *)
(* output_base_addr, the length of B's indptr: none is issued twice and    *)
(* none is the id of a row of B, whatever next_window, merge_task and      *)
(* write_psum did.                                                         *)
C17_AddressesIncrease ==
    [][IF pc = "scheduler"
       THEN SchedIssueOk(sched, sched', issued, issued')
       ELSE TmIssueOk(tm, tm')]_vars

(* A merge task was issued after windows, and a window after it. *)
C17_Witness ==
    /\ pc = "scheduler"
    /\ \E b \in DOMAIN sched.block_tracker, c \in DOMAIN sched.block_tracker :
          /\ sched.block_tracker[b].is_merge_block
          /\ ~sched.block_tracker[c].is_merge_block
          /\ b < c
    /\ Cardinality(issued) >= 5

-----------------------------------------------------------------------------
(* What next_window records for a window, its counters left aside. *)
WindowRecord(w) == <<w.anchor, w.shape, w.lane2idx, w.arow_addr_pairs>>

(* C18: once a window is issued under a window token, the anchor, shape,   *)
(* lane map and output addresses recorded for the token never change: no   *)
(* later window overwrites the tracker entry of an earlier one.            *)
C18_WindowImmutable ==
    [][\A t \in DOMAIN sched.window_tracker \cap DOMAIN sched'.window_tracker :
           WindowRecord(sched'.window_tracker[t]) = WindowRecord(sched.window_tracker[t])]_vars

(* C19: every block issued by next_block, the first one included, has a    *)
(* row with a nonzero at or beyond the block's column anchor.              *)
C19_IssuedBlockNotEmpty ==
    \A t \in DOMAIN sched.block_tracker :
        ~sched.block_tracker[t].is_merge_block
            => ~is_block_empty(sched, sched.block_tracker[t].anchor,
                               sched.block_tracker[t].shape)

(* The tokens the topology tracker holds. *)
TopoTokens(topo) == UNION {SeqRange(topo.token_list[i]) : i \in 1..Len(topo.token_list)}

(* Block c starts in a later row stripe than an earlier block of A. *)
HasBlockAbove(s, c) ==
    \E t \in DOMAIN s.block_tracker :
        /\ ~s.block_tracker[t].is_merge_block
        /\ s.block_tracker[t].anchor[0] < s.block_tracker[c].anchor[0]

(* C20: every non-merge block issued by next_block is recorded in the      *)
(* block topology tracker, and find_above asked for a block of a later row *)
(* stripe returns the token of a block issued before, never None.          *)
C20_BlockRecordedInTopo ==
    \A c \in DOMAIN sched.block_tracker :
        ~sched.block_tracker[c].is_merge_block =>
            /\ c \in TopoTokens(sched.block_topo_tracker)
            /\ HasBlockAbove(sched, c) =>
                   /\ IsSome(topo_find_above(sched.block_topo_tracker,
                                              sched.block_tracker[c].anchor).val)
                   /\ Unwrap(topo_find_above(sched.block_topo_tracker,
                                              sched.block_tracker[c].anchor).val)
                          \in DOMAIN sched.block_tracker \ {c}

-----------------------------------------------------------------------------
(* Blocks of the traffic model and the merge trackers.                     *)

(* The pending-block list of a row before a block is registered. *)
PendingBlocks(s, rowid) ==
    IF rowid \in DOMAIN s.merge_trackers THEN s.merge_trackers[rowid].blocks ELSE <<>>

(* Row rowid of block b, emitted from state s into state u: when the row   *)
(* has a nonzero at the block's column anchor, the block is appended to    *)
(* its pending list and finished tells whether the block reaches its end.  *)
RowRegistered(s, u, b, rowid) ==
    (rowid < s.a_mem.row_num /\ b.col_s < RowLen(s.a_mem, rowid)) =>
        /\ rowid \in DOMAIN u.merge_trackers
        /\ u.merge_trackers[rowid].blocks
               = Append(PendingBlocks(s, rowid), Pair(b.col_s, b.row_s))
        /\ u.merge_trackers[rowid].finished
               <=> (b.col_s + b.width >= RowLen(s.a_mem, rowid))

(* get_next_block called in state s with result r. *)
BlockRegistered(s, r) ==
    IsSome(r.block) =>
        \A rowid \in Unwrap(r.block).row_s..(Unwrap(r.block).row_s + Unwrap(r.block).height - 1) :
            RowRegistered(s, r.s, Unwrap(r.block), rowid)

(* Two calls in a row, as assign_jobs makes them for two idle PEs. *)
BlocksRegistered(s, r) == BlockRegistered(s, r) /\ BlockRegistered(r.s, get_next_block(r.s))

(* C21: when get_next_block emits a block, every row of the block with a   *)
(* nonzero at the block's column anchor has the block added to its         *)
(* pending-block list, and the row's finished flag is true exactly when    *)
(* the block's column range reaches the end of the row.                    *)
C21_BlockRegistered ==
    (pc = "round" /\ tm.panic = NoPanic) => BlocksRegistered(tm, get_next_block(tm))

(* A block of two rows is emitted: it ends one row and not the other. *)
FinishesOneOfTwo(r) ==
    /\ IsSome(r.block)
    /\ \E x \in DOMAIN r.s.merge_trackers, y \in DOMAIN r.s.merge_trackers :
          /\ {x, y} \subseteq Unwrap(r.block).row_s..(Unwrap(r.block).row_s + Unwrap(r.block).height - 1)
          /\ get_idx(Unwrap(r.block)) \in SeqRange(r.s.merge_trackers[x].blocks)
          /\ get_idx(Unwrap(r.block)) \in SeqRange(r.s.merge_trackers[y].blocks)
          /\ r.s.merge_trackers[x].finished /\ ~r.s.merge_trackers[y].finished

C21_Witness == pc = "round" /\ tm.panic = NoPanic /\ tm.exec_round >= 1 /\ FinishesOneOfTwo(get_next_block(tm))

-----------------------------------------------------------------------------
(* The scheduler of the adaptive variant (NewOmega), on the matrices of    *)
(* the fixed variants and on matrices with a group of more than            *)
(* group_diviser rows.                                                     *)

WideRowNum == group_diviser + 2

(* WideRowNum rows of one nonzero, alone or followed by two longer rows    *)
(* that form a group of their own.                                         *)
WideMatrices ==
    {[r \in 0..(WideRowNum - 1) |-> <<0>>],
     [r \in 0..(WideRowNum + 1) |-> IF r < WideRowNum THEN <<0>> ELSE <<0, 1, 2>>]}

AdaptConfigs == {SchedConfig(2, 1, Pair(1, 1), 2), SchedConfig(2, 1, Pair(2, 2), 2)}

WideConfigs == {SchedConfig(2, 1, Pair(1, 1), 2), SchedConfig(4, 1, Pair(1, 2), 2)}

AdaptInputs == (AMatrices \X AdaptConfigs) \cup (WideMatrices \X WideConfigs)

AdaptInit ==
    \E in \in AdaptInputs :
        /\ sched = SchedulerNew(in[2].pe_num, in[2].lane_num, in[2].block_shape, BRowNum + 1,
                                AMemOf(in[1], FALSE, EmptyMap), BMatrix(0), in[2].var_factor,
                                "NewOmega")
        /\ a_matrix = AMemOf(in[1], FALSE, EmptyMap)
        /\ pe_task = [p \in 0..(in[2].pe_num - 1) |-> [task |-> None, done |-> FALSE]]
        /\ issued = {}
        /\ tm = None /\ pc = "scheduler" /\ pe_i = 0 /\ result = None
        /\ call = None /\ ret = None

(* The rows merge_task can take a pair from; the place of the other rows   *)
(* in the iteration order of the output tracker changes nothing.           *)
PairRows(s) == {r \in DOMAIN s.output_tracker : Len(s.output_tracker[r]) >= 2}

(* A PE without a task, or done with its window, asks for its next job. *)
AdaptAssignJobs(p) ==
    /\ pc = "scheduler"
    /\ sched.panic = NoPanic
    /\ ~IsSome(pe_task[p].task) \/ pe_task[p].done
    /\ \E order \in Orders(PairRows(sched)) :
         \E r \in {sched_assign_jobs(sched, pe_task[p].task, a_matrix, order)} :
             /\ sched' = r.s
             /\ a_matrix' = r.mem
             /\ pe_task' = [pe_task EXCEPT ![p] = [task |-> r.task, done |-> FALSE]]
             /\ issued' = issued \cup window_addrs(r.s)
    /\ UNCHANGED <<tvars, cvars>>

AdaptNext == \E p \in DOMAIN pe_task : AdaptAssignJobs(p) \/ CollectPendingPsums(p)

SpecAdapt == AdaptInit /\ [][AdaptNext]_vars

(* C22: under the adaptive variant every window shape adjust_window        *)
(* returns is [h, lane_num / h] for the height h of the block, so that a   *)
(* window has exactly lane_num lanes.                                      *)
C22_AdaptiveWindowLanes ==
    \A t \in DOMAIN sched.window_tracker :
        ~sched.block_tracker[sched.window_tracker[t].block_token].is_merge_block =>
            /\ sched.window_tracker[t].shape[0]
                   = sched.block_tracker[sched.window_tracker[t].block_token].shape[0]
            /\ sched.window_tracker[t].shape[1]
                   = sched.lane_num \div sched.window_tracker[t].shape[0]
            /\ sched.window_tracker[t].shape[0] * sched.window_tracker[t].shape[1]
                   = sched.lane_num


(* Block c is the first block of a row stripe at which the scan entered a  *)
(* row group: the first stripe, or one whose first row lies in another     *)
(* group than the first row of the stripe before it.                       *)
EntersGroup(s, c) ==
    /\ ~s.block_tracker[c].is_merge_block
    /\ s.block_tracker[c].anchor[1] = 0
    /\ \/ s.block_tracker[c].anchor[0] = 0
       \/ s.a_group.rgmap[s.block_tracker[c].anchor[0]]
              /= s.a_group.rgmap[s.block_tracker[c].anchor[0] - s.block_tracker[c].shape[0]]

(* C23: under the adaptive rowwise scheme the first block issued after the *)
(* scan entered a row group has height 1: its tracker covers one A-row.    *)
C23_GroupStartsWithOneRow ==
    \A c \in DOMAIN sched.block_tracker :
        EntersGroup(sched, c) =>
            /\ sched.block_tracker[c].shape[0] = 1
            /\ Len(sched.block_tracker[c].a_cols_num) = 1

(* The row number the narrow-group adjustment would set for the block at   *)
(* the scan position if n1 and n2 were the two neighbours above it; the    *)
(* empty set when the adjustment panics.                                   *)
NeighborRowNums(s, n1, n2) ==
    {r.block_shape[1] : r \in {q \in {adjust_by_neighbors(s, Pair(s.row_s, s.col_s), n1, n2)} : q.panic = NoPanic}}

BlockRows(s, c) ==
    {r \in 0..(s.a_row_num - 1) :
        /\ r >= s.block_tracker[c].anchor[0]
        /\ r < s.block_tracker[c].anchor[0] + s.block_tracker[c].shape[0]}

(* C25: under the adaptive rowwise scheme every issued block lies within   *)
(* one row group: the rows it covers belong to the group of its first row. *)
C25_BlockWithinGroup ==
    \A c \in DOMAIN sched.block_tracker :
        ~sched.block_tracker[c].is_merge_block =>
            \A r \in BlockRows(sched, c) :
                sched.a_group.rgmap[r] = sched.a_group.rgmap[sched.block_tracker[c].anchor[0]]

(* The row numbers sampled and chosen from: 1, 2, 4, ... up to lane_num. *)
Candidates(s) == {k \in 1..s.lane_num : \E e \in 0..s.lane_num : k = Pow2(e)}

(* The scan is in a wide group and past its sampling, the row number for   *)
(* the rest of the group chosen.                                           *)
RowNumChosen(s) ==
    /\ s.panic = NoPanic /\ s.row_group /= UsizeMax
    /\ is_wide_group(s)
    /\ s.set_row_num /= UsizeMax

(* Row number k has the least accumulated cost per element of the          *)
(* candidates in cost_num.                                                 *)
LeastCost(s, cost_num, k) ==
    /\ Candidates(s) \subseteq DOMAIN cost_num
    /\ \A j \in Candidates(s) : ~div_cost_less(cost_num[j], Some(cost_num[k]))

(* C26: in a wide group, once sampling is over, the row number chosen for  *)
(* the rest of the group is the candidate among 1, 2, 4, ..., lane_num     *)
(* with the least accumulated cost per element.                            *)
C26_ChosenHasLeastCost ==
    RowNumChosen(sched) =>
        LeastCost(sched, sched.a_group.groups[sched.row_group + 1].cost_num, sched.set_row_num)

(* The rows the sampling of a wide group takes when every row number k is  *)
(* run for sample_num * k rows: k = 1 on the first sample_num rows of the  *)
(* group, k = 2 on the next 2 * sample_num, and so on.                     *)
SamplingRows(s) == sample_num * (2 * Pow2(Cardinality(Candidates(s)) - 1) - 1)

SampleAt(s, d) == CHOOSE k \in Candidates(s) : sample_num * (k - 1) <= d /\ d < sample_num * (2 * k - 1)

(* Block c starts a row of a wide group, d rows after the group's first. *)
SampledBlock(s, c, d) ==
    /\ ~s.block_tracker[c].is_merge_block
    /\ d < SamplingRows(s)
    /\ d = s.block_tracker[c].anchor[0] - s.a_group.groups[s.a_group.rgmap[s.block_tracker[c].anchor[0]] + 1].row_range[0]
    /\ is_wide_group([s EXCEPT !.row_group = s.a_group.rgmap[s.block_tracker[c].anchor[0]]])

(* C27: in a wide group the sampling runs the row numbers k = 1, 2, 4,     *)
(* ..., lane_num in that order, each for exactly 4 * k consecutive rows of *)
(* the group: a block d rows into the group has the row number k with      *)
(* 4 * (k - 1) <= d < 4 * (2 * k - 1).                                     *)
C27_SamplingRuns ==
    \A c \in DOMAIN sched.block_tracker : \A d \in 0..(SamplingRows(sched) - 1) :
        SampledBlock(sched, c, d) => sched.block_tracker[c].shape[1] = SampleAt(sched, d)

-----------------------------------------------------------------------------
(* The functions of the two topology trackers and parse_group, each        *)
(* applied once to an input drawn from a bounded set.                      *)
(*                                                                         *)
(* A tracker holds the anchors of the blocks opened so far: row_s_list is  *)
(* ascending, col_s_list[i] holds the column anchors of stripe i in        *)
(* ascending order, the first of them column 0, and the scheduler's        *)
(* token_list gives every block its token.  A query is [column, row].      *)

MaxTopoCol == BRowNum + 1
TopoRowAnchors == {0, 2}
TopoStripes == {SortedSeqOf({0} \cup S) : S \in SUBSET (1..MaxTopoCol)}
TopoQueries == {Pair(c, r) : c \in 0..MaxTopoCol, r \in 0..MaxARows}

(* The tokens of a tracker, numbered stripe by stripe. *)
TopoTokensOf(col_s_list) ==
    [i \in DOMAIN col_s_list |->
        [j \in DOMAIN col_s_list[i] |-> SumSeq([k \in 1..(i - 1) |-> Len(col_s_list[k])]) + j - 1]]

TopoTrackerOf(rows, col_s_list) ==
    [row_s_list |-> rows, col_s_list |-> col_s_list, token_list |-> TopoTokensOf(col_s_list)]

TopoTrackers ==
    {TopoTrackerOf(SortedSeqOf(R), cols) :
        cols \in UNION {[1..n -> TopoStripes] : n \in 0..Cardinality(TopoRowAnchors)},
        R \in SUBSET TopoRowAnchors}

WellFormedTrackers == {t \in TopoTrackers : Len(t.row_s_list) = Len(t.col_s_list)}

VarFactors == {1, 2, 3}

Calls ==
    {[fn |-> f, topo |-> t, cur_block |-> q] :
        f \in {"BlockTracker::find_above", "BlockTopoTracker::find_above",
               "BlockTracker::find_left", "BlockTopoTracker::find_left"},
        t \in WellFormedTrackers, q \in TopoQueries}
    \cup {[fn |-> "parse_group", matrix |-> AMemOf(cols, FALSE, EmptyMap), var_factor |-> v] :
             cols \in AMatrices, v \in VarFactors}

CallInit ==
    /\ call \in Calls /\ ret = None
    /\ pc = "call"
    /\ tm = None /\ pe_i = 0 /\ result = None
    /\ sched = None /\ a_matrix = None /\ pe_task = None /\ issued = {}

Returns(fn, r) ==
    /\ pc = "call" /\ call.fn = fn
    /\ ret' = Some(r)
    /\ pc' = "returned"
    /\ UNCHANGED <<tm, pe_i, result, svars, call>>

TmFindAbove == Returns("BlockTracker::find_above", tm_find_above(call.topo, call.cur_block))
TopoFindAbove == Returns("BlockTopoTracker::find_above", topo_find_above(call.topo, call.cur_block))
TmFindLeft == Returns("BlockTracker::find_left", tm_find_left(call.topo, call.cur_block))
TopoFindLeft == Returns("BlockTopoTracker::find_left", topo_find_left(call.topo, call.cur_block))
ParseGroup == Returns("parse_group", parse_group(call.matrix, call.var_factor))

CallNext == TmFindAbove \/ TopoFindAbove \/ TmFindLeft \/ TopoFindLeft \/ ParseGroup

SpecCall == CallInit /\ [][CallNext]_vars

(* The stripes of the tracker above the query: row anchor less than the    *)
(* query's row.                                                            *)
StripesAbove(topo, cur_block) == {i \in 1..Len(topo.row_s_list) : topo.row_s_list[i] < cur_block[1]}

(* The positions in cols of the column anchors nearest to column c. *)
NearestPos(cols, c) ==
    {j \in 1..Len(cols) : \A k \in 1..Len(cols) : Abs(cols[j] - c) <= Abs(cols[k] - c)}

(* What a block at position j of stripe i is returned as: its anchor by    *)
(* the traffic model's tracker, its token by the scheduler's.              *)
BlockAt(fn, topo, i, j) ==
    IF fn \in {"BlockTracker::find_above", "BlockTracker::find_left"}
    THEN Pair(topo.col_s_list[i][j], topo.row_s_list[i])
    ELSE topo.token_list[i][j]

(* r is a block nearest in column to the query in the last stripe above    *)
(* it, or None when no stripe is above it.                                 *)
IsNearestAbove(fn, topo, cur_block, r, above) ==
    /\ r.panic = NoPanic
    /\ IF above = {} THEN r.val = None
       ELSE \E i \in above :
               /\ \A k \in above : k <= i
               /\ \E j \in NearestPos(topo.col_s_list[i], cur_block[0]) :
                      r.val = Some(BlockAt(fn, topo, i, j))

LeftPos(cols, c) == {j \in 1..Len(cols) : cols[j] < c}

(* r is the block of stripe i with the greatest column anchor less than    *)
(* the query's, or None when the stripe has no block left of the query.    *)
IsLeftInStripe(fn, topo, cur_block, r, i) ==
    /\ r.panic = NoPanic
    /\ IF LeftPos(topo.col_s_list[i], cur_block[0]) = {} THEN r.val = None
       ELSE \E j \in LeftPos(topo.col_s_list[i], cur_block[0]) :
               /\ \A k \in LeftPos(topo.col_s_list[i], cur_block[0]) : k <= j
               /\ r.val = Some(BlockAt(fn, topo, i, j))

GroupStarts(gt) == {gt.groups[g].row_range[0] : g \in DOMAIN gt.groups}

(* The non-empty rows before row i. *)
NonEmptyBefore(mem, i) == {j \in 0..(i - 1) : RowLen(mem, j) > 0}

(* Row i is not empty and its length differs from that of the last         *)
(* non-empty row j before it by more than the factor.                      *)
LengthBreaks(mem, var_factor, i) ==
    /\ RowLen(mem, i) > 0
    /\ \E j \in NonEmptyBefore(mem, i) :
           /\ \A k \in NonEmptyBefore(mem, i) : k <= j
           /\ \/ RowLen(mem, j) * var_factor < RowLen(mem, i)
              \/ RowLen(mem, j) > var_factor * RowLen(mem, i)

(* C30: parse_group starts a new group at row i exactly when row i is not  *)
(* empty and its length differs from the length of the previous non-empty  *)
(* row by more than the factor var_factor, in either direction; an empty   *)
(* row starts no group and leaves the reference length as it is.  The      *)
(* first group starts at row 0.                                            *)
C30_GroupStartsAtBreaks ==
    (pc = "returned" /\ call.fn = "parse_group") =>
        /\ 0 \in GroupStarts(Unwrap(ret))
        /\ \A i \in 1..(call.matrix.row_num - 1) :
               i \in GroupStarts(Unwrap(ret)) <=> LengthBreaks(call.matrix, call.var_factor, i)

(* A group starts right after an empty row, on the length of the row       *)
(* before the empty one, and a shorter row starts a group as well.         *)
C30_Witness ==
    /\ pc = "returned" /\ call.fn = "parse_group"
    /\ \E i \in 2..(call.matrix.row_num - 1) :
           /\ RowLen(call.matrix, i - 1) = 0
           /\ RowLen(call.matrix, i) < RowLen(call.matrix, i - 2)
           /\ i \in GroupStarts(Unwrap(ret))
           /\ (i - 1) \notin GroupStarts(Unwrap(ret))

-----------------------------------------------------------------------------
(* The PEs of the traffic model: merge rounds, the oracle's search and the *)
(* fibers computed.                                                        *)

(* The psums waiting to be merged when assign_jobs is called on s: those   *)
(* of the queued rows that hold other than one psum.                       *)
PendingPsumsNum(s) ==
    SumSeq([i \in 1..Cardinality({r \in {s.merge_queue[k] : k \in DOMAIN s.merge_queue} : Len(s.output_trackers[r]) /= 1}) |->
               Len(s.output_trackers[SortedSeqOf({r \in {s.merge_queue[k] : k \in DOMAIN s.merge_queue} : Len(s.output_trackers[r]) /= 1})[i]])])

(* min(ceil(pending psums / lane_num), pe_num) *)
MergePECount(s) == Min((PendingPsumsNum(s) + s.lane_num - 1) \div s.lane_num, s.pe_num)

(* The PEs taken cyclically from merge_pe. *)
MergePEs(s) == {(s.merge_pe + k) % s.pe_num : k \in 0..(MergePECount(s) - 1)}

(* C31: in every round of the traffic model the PEs put in merge mode are  *)
(* the min(ceil(pending psums / lane_num), pe_num) PEs taken cyclically    *)
(* from merge_pe, every other PE is put in normal mode, and merge_pe then  *)
(* advances by that count modulo pe_num and stays below pe_num.            *)
C31_MergePEsRoundRobin ==
    [][(pc = "round" /\ pc' = "pes") =>
          /\ \A p \in DOMAIN tm'.pes : tm'.pes[p].merge_mode <=> p \in MergePEs(tm)
          /\ tm'.merge_pe = (tm.merge_pe + MergePECount(tm)) % tm.pe_num
          /\ tm'.merge_pe < tm'.pe_num]_vars

(* A round of an oracle run starts with an empty merge queue and its first *)
(* PE idle: assign_jobs takes the snapshots, fetches the next block for    *)
(* that PE and begins the search for the block's window.                   *)
SearchBegins(s) ==
    /\ pc = "round" /\ s.panic = NoPanic /\ s.oracle_exec
    /\ s.merge_queue = <<>>
    /\ s.pes[s.merge_pe].cur_block.height = 0
    /\ IsSome(get_next_block(take_snapshots(s)).block)

(* The state in which the search begins, and the search made from it. *)
SearchStart(s) == get_next_block(take_snapshots(s)).s
Searched(s) == oracle_adjust_window(SearchStart(s), Unwrap(get_next_block(take_snapshots(s)).block))

(* C32: after oracle_adjust_window returns, the cache, the backing stores  *)
(* with their read and write counters, A and the psum address counter are  *)
(* what they were when the search began.                                   *)
C32_SearchLeavesNoTrace ==
    SearchBegins(tm) =>
        /\ Searched(tm).s.fiber_cache = SearchStart(tm).fiber_cache
        /\ Searched(tm).s.a_mem = SearchStart(tm).a_mem
        /\ Searched(tm).s.output_base_addr = SearchStart(tm).output_base_addr

(* The windows [2^i, 2^j] of lane_num lanes. *)
CandidateWindows(s) == {Pair(a, s.lane_num \div a) : a \in {k \in Candidates(s) : s.lane_num % k = 0}}

(* The traffic of a trial of window w on the block of the search, started  *)
(* from the snapshot: B reads, psum reads and psum writes.                 *)
TrialTraffic(s, w) ==
    mem_traffic(try_exec_block(oracle_restore(SearchStart(s)), Unwrap(get_next_block(take_snapshots(s)).block), w))
        - mem_traffic(oracle_restore(SearchStart(s)))

RECURSIVE slide_positions(_, _)
slide_positions_after(s, r) ==
    IF r.ok THEN <<Pair(r.pe.row_s, r.pe.col_s)>> \o slide_positions(s, r.pe) ELSE <<>>

slide_positions(s, pe) == slide_positions_after(s, slide_window_pe(s, pe))

positions_from(s, pe) == <<Pair(pe.row_s, pe.col_s)>> \o slide_positions(s, pe)

CommittedPositions(s, block, w) ==
    positions_from(s, first_window(s, [assign_block(PENew(w), block) EXCEPT !.reduction_window = w]))

(* Window w at position pos lies within the block. *)
WithinBlock(block, w, pos) ==
    /\ block.row_s <= pos[0] /\ pos[0] + w[1] <= block.row_s + block.height
    /\ block.col_s <= pos[1] /\ pos[1] + w[0] <= block.col_s + block.width

TrialMatches(s, block, w) ==
    /\ try_positions(s, block, w, 0, 0) = CommittedPositions(s, block, w)
    /\ \A k \in DOMAIN try_positions(s, block, w, 0, 0) :
           WithinBlock(block, w, try_positions(s, block, w, 0, 0)[k])

(* C34: the trial of a block with a candidate window visits exactly the    *)
(* window positions the committed execution of the block with that window  *)
(* visits, the block's anchor first and then each position of              *)
(* slide_window, and touches no row or column of A outside the block.      *)
C34_TrialVisitsCommittedPositions ==
    SearchBegins(tm) =>
        \A w \in CandidateWindows(tm) :
            TrialMatches(SearchStart(tm), Unwrap(get_next_block(take_snapshots(tm)).block), w)

(* Where a PE stands: its block, its window position and its window. *)
Standing(pe) == [cur_block |-> pe.cur_block, row_s |-> pe.row_s, col_s |-> pe.col_s, reduction_window |-> pe.reduction_window]

(* The PE has windows left in its block: slide_window would succeed. *)
HasNextWindow(s, pe) == slide_window_pe(s, [pe EXCEPT !.merge_mode = FALSE]).ok

(* assign_jobs leaves a PE it puts in merge mode where it stands, and      *)
(* moves a PE it puts in normal mode, preempted in the round before or     *)
(* not, to the next window of its block when there is one.                 *)
AssignKeepsPlace(s, t) ==
    \A p \in DOMAIN s.pes :
        /\ t.pes[p].merge_mode => Standing(t.pes[p]) = Standing(s.pes[p])
        /\ (~t.pes[p].merge_mode /\ HasNextWindow(s, s.pes[p])) =>
               t.pes[p] = slide_window_pe(s, [s.pes[p] EXCEPT !.merge_mode = FALSE]).pe

(* C35: a PE switched to merge mode for a round keeps its block, its       *)
(* window position and its reduction window, and back in normal mode it    *)
(* continues with the next window of that block: no window of the block is *)
(* executed twice or skipped because of the merge.  Executing a window     *)
(* moves no PE.                                                            *)
C35_MergeKeepsPlace ==
    [][/\ (pc = "round" /\ pc' = "pes") => AssignKeepsPlace(tm, tm')
       /\ (pc = "pes" /\ tm'.panic = NoPanic) => \A p \in DOMAIN tm.pes : tm'.pes[p] = tm.pes[p]]_vars

(* A PE was preempted for a merge with windows of its block still to come. *)
C35_Witness ==
    /\ pc = "pes" /\ tm.panic = NoPanic
    /\ \E p \in DOMAIN tm.pes :
           /\ tm.pes[p].merge_mode
           /\ tm.pes[p].cur_block.height /= 0
           /\ HasNextWindow(tm, tm.pes[p])

(* The column ids of the input fibers fbs, and the sum over the inputs of  *)
(* scale * value at column c.                                              *)
InputCols(fbs) == UNION {{fbs[j].indptr[i] : i \in DOMAIN fbs[j].indptr} : j \in DOMAIN fbs}

ValueAt(fb, c) == SumSeq([i \in DOMAIN fb.indptr |-> IF fb.indptr[i] = c THEN fb.data[i] ELSE 0])

ScaledSum(sfs, fbs, c) == SumSeq([j \in DOMAIN fbs |-> sfs[j][2] * ValueAt(fbs[j], c)])

(* psum is the sum of the fibers fbs scaled by sfs. *)
IsScaledSum(psum, sfs, fbs) ==
    /\ Len(sfs) = Len(fbs)
    /\ Len(psum.indptr) = Len(psum.data)
    /\ Increasing(psum.indptr)
    /\ {psum.indptr[i] : i \in DOMAIN psum.indptr} = InputCols(fbs)
    /\ \A i \in DOMAIN psum.indptr : psum.data[i] = ScaledSum(sfs, fbs, psum.indptr[i])

(* The window data PE pe_i is about to compute on. *)
Computing(s, i) ==
    /\ pc = "pes" /\ s.panic = NoPanic /\ i \in DOMAIN s.pes
    /\ s.pes[i].merge_mode \/ s.pes[i].reduction_window[0] /= 0
    /\ fetch_window_data(s, i).s.panic = NoPanic

ComputedOk(w, out) ==
    /\ Len(out) = Len(w.rowidxs)
    /\ \A k \in DOMAIN out :
           IF Len(w.scaling_factors[k]) = 0 THEN out[k] = None
           ELSE /\ IsSome(out[k])
                /\ Unwrap(out[k]).rowptr = w.rowidxs[k]
                /\ IsScaledSum(Unwrap(out[k]), w.scaling_factors[k], w.fibers[k])

(* C36: every psum fiber compute_a_window produces, in normal and in merge *)
(* mode, has strictly increasing column ids, holds exactly the union of    *)
(* the column ids of its input fibers, and at each column the sum over the *)
(* inputs of scale * value at that column.                                 *)
C36_PsumIsScaledSum ==
    Computing(tm, pe_i) =>
        ComputedOk(fetch_window_data(tm, pe_i),
                   compute_a_window(fetch_window_data(tm, pe_i).rowidxs,
                                    fetch_window_data(tm, pe_i).scaling_factors,
                                    fetch_window_data(tm, pe_i).fibers))

(* A merge of two psums that share a column and differ in another. *)
C36_Witness ==
    /\ Computing(tm, pe_i) /\ tm.pes[pe_i].merge_mode
    /\ \E k \in DOMAIN fetch_window_data(tm, pe_i).fibers :
           /\ Len(fetch_window_data(tm, pe_i).fibers[k]) >= 2
           /\ \E c, d \in InputCols(fetch_window_data(tm, pe_i).fibers[k]) :
                  /\ ValueAt(fetch_window_data(tm, pe_i).fibers[k][1], c) /= 0
                  /\ ValueAt(fetch_window_data(tm, pe_i).fibers[k][2], c) /= 0
                  /\ ValueAt(fetch_window_data(tm, pe_i).fibers[k][1], d) = 0
                  /\ ValueAt(fetch_window_data(tm, pe_i).fibers[k][2], d) /= 0

-----------------------------------------------------------------------------
(* The scheduler's traversal of A: what the normal tasks carry, the rows   *)
(* it indexes, and the row groups.                                         *)

(* The blocks of A, as opposed to merge blocks. *)
NormalBlocks(s) == {t \in DOMAIN s.block_tracker : ~s.block_tracker[t].is_merge_block}

(* The nonzeros [row, column id] of A on the lanes of window w. *)
CarriedBy(s, w) ==
    {Unwrap(s.window_tracker[w].lane2idx[k]) :
        k \in {n \in DOMAIN s.window_tracker[w].lane2idx : IsSome(s.window_tracker[w].lane2idx[n])}}

(* The nonzeros on the lanes of the windows of A the scheduler holds. *)
CarriedSoFar(s) ==
    UNION {CarriedBy(s, w) :
             w \in {t \in DOMAIN s.window_tracker :
                      s.window_tracker[t].block_token \in NormalBlocks(s)}}

(* The number of elements of row r the windows of block t have read. *)
AssignedIn(s, t, r) ==
    IF /\ r >= s.block_tracker[t].anchor[0]
       /\ r < s.block_tracker[t].anchor[0] + Len(s.block_tracker[t].a_cols_assigned)
    THEN s.block_tracker[t].a_cols_assigned[r - s.block_tracker[t].anchor[0] + 1]
    ELSE 0

AssignedOfRow(s, r) ==
    SumSeq([i \in 1..Len(SortedSeqOf(NormalBlocks(s))) |->
               AssignedIn(s, SortedSeqOf(NormalBlocks(s))[i], r)])

(* A is traversed and every block of it is finished. *)
RunComplete(s) ==
    /\ s.panic = NoPanic /\ s.a_traversed
    /\ \A t \in NormalBlocks(s) : is_block_finished(s, t)

(* PE p is handed a normal task in this step. *)
NormalTaskIssued(p) ==
    /\ sched.panic = NoPanic /\ sched'.panic = NoPanic
    /\ ~IsSome(pe_task[p].task) \/ pe_task[p].done
    /\ pe_task'[p] /= pe_task[p]
    /\ IsSome(pe_task'[p].task)
    /\ ~Unwrap(pe_task'[p].task).merge_mode

(* C37: over a complete run of the scheduler every nonzero of A is carried *)
(* by exactly one normal task: a task handed out carries no nonzero that   *)
(* an earlier window carries, and once A is traversed and its blocks are   *)
(* finished the elements read of each row are as many as the row holds.    *)
C37_EachNonzeroCarriedOnce ==
    [][/\ \A p \in DOMAIN pe_task :
             NormalTaskIssued(p) =>
                 CarriedBy(sched', Unwrap(pe_task'[p].task).window_token)
                     \cap CarriedSoFar(sched) = {}
       /\ (pc' = "scheduler" /\ RunComplete(sched')) =>
              \A r \in 0..(sched'.a_row_num - 1) :
                  AssignedOfRow(sched', r) = sched'.a_row_lens[r]]_vars

(* The tracker lists one column list per stripe, the stripes by ascending  *)
(* row anchor, and in each stripe the column anchors ascending from 0.     *)
TopoSorted(topo) ==
    /\ Increasing(topo.row_s_list)
    /\ Len(topo.col_s_list) = Len(topo.row_s_list)
    /\ \A i \in 1..Len(topo.col_s_list) :
           /\ Len(topo.col_s_list[i]) >= 1
           /\ topo.col_s_list[i][1] = 0
           /\ Increasing(topo.col_s_list[i])

(* The anchors [column, row] a search of the tracker may be asked for. *)
TmTopoQueries == {Pair(c, r) : c \in 0..BRowNum, r \in 0..MaxARows}

(* C38: in the traffic model's topology tracker, after any sequence of     *)
(* get_next_block calls, row_s_list is strictly increasing, there is one   *)
(* column list per recorded stripe, and every column list is strictly      *)
(* increasing and starts at column 0; find_above does not panic on any     *)
(* anchor, nor find_left on an anchor of a recorded stripe.                *)
C38_TopoListsSorted ==
    /\ TopoSorted(tm.block_topo)
    /\ \A q \in TmTopoQueries :
           /\ tm_find_above(tm.block_topo, q).panic = NoPanic
           /\ q[1] \in SeqRange(tm.block_topo.row_s_list)
                  => tm_find_left(tm.block_topo, q).panic = NoPanic

(* Two stripes, the lower one with a block at a column the upper one has   *)
(* no block at.                                                            *)
C38_Witness ==
    /\ tm.panic = NoPanic
    /\ \E i \in 2..Len(tm.block_topo.row_s_list) :
           \E j \in 1..Len(tm.block_topo.col_s_list[i]) :
               /\ tm.block_topo.col_s_list[i][j] \notin SeqRange(tm.block_topo.col_s_list[i - 1])
               /\ IsSome(tm_find_above(tm.block_topo,
                                       Pair(tm.block_topo.col_s_list[i][j],
                                            tm.block_topo.row_s_list[i])).val)

(* The panics of an index into a_row_lens at or beyond a_row_num. *)
RowIndexPanics ==
    {"next_block: a_row_lens index out of bounds", "next_window: a_row_lens index out of bounds"}

(* C39: next_block and next_window never index an A-row at or beyond       *)
(* a_row_num: no run ends in such a panic, and from no state of a run does *)
(* the next call of next_block, or of next_window on a block held, do so.  *)
C39_NoRowIndexPastEnd ==
    /\ sched.panic \notin RowIndexPanics
    /\ sched.panic = NoPanic =>
           /\ next_block(sched).s.panic \notin RowIndexPanics
           /\ \A t \in DOMAIN sched.block_tracker :
                  next_window(sched, t, a_matrix).s.panic \notin RowIndexPanics

(* The groups of gt are non-empty row ranges [from, to), each starting     *)
(* where the one before it ends, the first at row 0 and the last ending at *)
(* row_num.                                                                *)
GroupsPartition(gt, row_num) ==
    /\ Len(gt.groups) >= 1
    /\ gt.groups[1].row_range[0] = 0
    /\ gt.groups[Len(gt.groups)].row_range[1] = row_num
    /\ \A g \in 1..Len(gt.groups) : gt.groups[g].row_range[0] < gt.groups[g].row_range[1]
    /\ \A g \in 1..(Len(gt.groups) - 1) :
           gt.groups[g].row_range[1] = gt.groups[g + 1].row_range[0]

(* rgmap holds every row below row_num, under the index of the group whose *)
(* range the row lies in.                                                  *)
RgmapTotal(gt, row_num) ==
    /\ DOMAIN gt.rgmap = 0..(row_num - 1)
    /\ \A r \in DOMAIN gt.rgmap :
           /\ gt.rgmap[r] \in 0..(Len(gt.groups) - 1)
           /\ gt.groups[gt.rgmap[r] + 1].row_range[0] <= r
           /\ r < gt.groups[gt.rgmap[r] + 1].row_range[1]

(* A scheduler of the fixed variant on the matrix of the call, standing on *)
(* row r.                                                                  *)
SchedulerOnRow(mem, var_factor, r) ==
    [SchedulerNew(1, 2, Pair(1, 1), BRowNum + 1, mem, BMatrix(0), var_factor, "Omega")
        EXCEPT !.row_s = r]

(* C40: the groups parse_group produces are contiguous, non-overlapping,   *)
(* in ascending row order and cover the rows 0 .. row_num - 1; rgmap maps  *)
(* every row, empty rows included, to the index of the group that holds    *)
(* it, and adjust_block finds in rgmap every row below a_row_num.          *)
C40_GroupsCoverRows ==
    (pc = "returned" /\ call.fn = "parse_group") =>
        /\ GroupsPartition(Unwrap(ret), call.matrix.row_num)
        /\ RgmapTotal(Unwrap(ret), call.matrix.row_num)
        /\ \A r \in 0..(call.matrix.row_num - 1) :
               adjust_block(SchedulerOnRow(call.matrix, call.var_factor, r), Pair(r, 0)).panic
                   = NoPanic

(* Two groups and an empty row that is not the first of its group. *)
C40_Witness ==
    /\ pc = "returned" /\ call.fn = "parse_group"
    /\ Len(Unwrap(ret).groups) >= 2
    /\ \E r \in 1..(call.matrix.row_num - 1) :
           /\ RowLen(call.matrix, r) = 0
           /\ r \in DOMAIN Unwrap(ret).rgmap
           /\ r /= Unwrap(ret).groups[Unwrap(ret).rgmap[r] + 1].row_range[0]

====
